---------------------------- MODULE Spec2Model ----------------------------
(***************************************************************************)
(* A model of the display transformation and grid layout engine of        *)
(* polaris (src/scripts/display.py): the position parser parse_pos, the    *)
(* grid layout engine build_layout, the named-view dispatch               *)
(* build_dashboards, the day aggregator cal_dashboard, the date humanizer  *)
(* format_date, the record transformer transform_item and the renderer     *)
(* DisplayItem.display with display_items.                                 *)
(*                                                                         *)
(* Python strings are sequences of one-character strings.  Python's None   *)
(* is the one-element sequence None, which is no string.  A call either    *)
(* returns a value or raises; both outcomes are records of the same shape  *)
(* (see Return and Raise).                                                 *)
(***************************************************************************)
EXTENDS Integers, Sequences, FiniteSets, TLC

VARIABLES
    pc,          \* position of the running call: "start", "built", "done"
    pos_parts,   \* the pieces the position string under test was written from
    pos_str,     \* parse_pos: the argument
    pos_result,  \* parse_pos: the outcome
    dashboards,  \* build_layout: the argument, a list of PositionedDashboard
    layout,      \* build_layout: the outcome
    json,        \* build_dashboards: the argument, the ordered view mapping
    built,       \* build_dashboards: the outcome
    items,       \* cal_dashboard: the argument, the ordered records
    ty,          \* cal_dashboard: "events" or "daily_notes"
    cal_out,     \* cal_dashboard: the renderables it yields, in order
    call,        \* format_date, display_items: the function called and its arguments
    ret          \* format_date, display_items: the outcome

vars == <<pc, pos_parts, pos_str, pos_result, dashboards, layout, json, built,
          items, ty, cal_out, call, ret>>

----------------------------------------------------------------------------
(* Bounds of the model.                                                    *)

MaxNum == 3

MaxPanels == 3

MaxRow == 1

MaxCol == 1

MaxViews == 2

MaxItems == 3

MaxDay == 2

----------------------------------------------------------------------------
(* Python values.                                                          *)

None == <<"<None>">>

\* None where a dict may stand.
NoneDict == [none |-> TRUE]

NoValue == <<>>

NoMsg == [text |-> "", arg |-> <<>>]

Return(v) == [raised |-> "", msg |-> NoMsg, value |-> v]

Raise(cls, text, arg) ==
    [raised |-> cls, msg |-> [text |-> text, arg |-> arg], value |-> NoValue]

Idle == Return(NoValue)

\* No function of the item display is being called.
NoCall == [fn |-> ""]

----------------------------------------------------------------------------
(* Characters.                                                             *)

Digits == <<"0", "1", "2", "3", "4", "5", "6", "7", "8", "9">>

IsDigit(ch) == \E k \in 1 .. Len(Digits) : Digits[k] = ch

DigitVal(ch) == (CHOOSE k \in 1 .. Len(Digits) : Digits[k] = ch) - 1

IsSpace(ch) == ch \in {" ", "\t"}

\* re.I: the pattern letters r and c match either case.
Lower(ch) ==
    CASE ch = "R" -> "r"
      [] ch = "C" -> "c"
      [] OTHER -> ch

RECURSIVE LStrip(_)
LStrip(s) == IF s # <<>> /\ IsSpace(Head(s)) THEN LStrip(Tail(s)) ELSE s

RECURSIVE RStrip(_)
RStrip(s) ==
    IF s # <<>> /\ IsSpace(s[Len(s)])
    THEN RStrip(SubSeq(s, 1, Len(s) - 1))
    ELSE s

\* str.strip()
Strip(s) == RStrip(LStrip(s))

\* int(): the decimal value of a run of digits, leading zeros allowed.
RECURSIVE int(_)
int(ds) ==
    IF ds = <<>> THEN 0
    ELSE 10 * int(SubSeq(ds, 1, Len(ds) - 1)) + DigitVal(ds[Len(ds)])

----------------------------------------------------------------------------
(* POS_RE, matched with fullmatch.                                         *)

\* \d+ is greedy: the index of the last character of the longest run of
\* digits that starts at i, or i - 1 when s[i] is no digit.  What follows a
\* \d+ in POS_RE is never a digit, so giving digits back never helps.
RECURSIVE DigitsEnd(_, _)
DigitsEnd(s, i) ==
    IF i <= Len(s) /\ IsDigit(s[i]) THEN DigitsEnd(s, i + 1) ELSE i - 1

\* \s*: the index of the first character at or after i that is no space.
RECURSIVE SkipSpace(_, _)
SkipSpace(s, i) ==
    IF i <= Len(s) /\ IsSpace(s[i]) THEN SkipSpace(s, i + 1) ELSE i

NoMatch == [matched |-> FALSE, first |-> None, second |-> None, next |-> 0]

\* (?:/(\d+))? behind the first number, which ends at j: the second number
\* would end at k.
OptionalEnd(s, from, j, k) ==
    IF j + 1 <= Len(s) /\ s[j + 1] = "/" /\ k >= j + 2
    THEN [matched |-> TRUE, first |-> SubSeq(s, from, j),
          second |-> SubSeq(s, j + 2, k), next |-> k + 1]
    ELSE [matched |-> TRUE, first |-> SubSeq(s, from, j),
          second |-> None, next |-> j + 1]

\* (\d+)(?:/(\d+))? from index from of s, the first number ending at j.
Numbers(s, from, j) ==
    IF j < from THEN NoMatch
    ELSE OptionalEnd(s, from, j, DigitsEnd(s, j + 2))

\* <key>:(\d+)(?:/(\d+))? at index i of s.
MatchAxis(s, i, key) ==
    IF ~(i + 1 <= Len(s) /\ Lower(s[i]) = key /\ s[i + 1] = ":") THEN NoMatch
    ELSE Numbers(s, i + 2, DigitsEnd(s, i + 2))

NoGroups ==
    [matched |-> FALSE, rs |-> None, re |-> None, cs |-> None, ce |-> None,
     next |-> 0]

\* The four groups, an unmatched group being None, and the index after the
\* match.
Groups(row, col) ==
    IF ~col.matched THEN NoGroups
    ELSE [matched |-> TRUE, rs |-> row.first, re |-> row.second,
          cs |-> col.first, ce |-> col.second, next |-> col.next]

\* ;\s*c:... with the ; expected at index semi.
FromSemicolon(s, row, semi) ==
    IF ~(semi <= Len(s) /\ s[semi] = ";") THEN NoGroups
    ELSE Groups(row, MatchAxis(s, SkipSpace(s, semi + 1), "c"))

\* \s*;\s*c:... behind the row part.
AfterRow(s, row) ==
    IF ~row.matched THEN NoGroups
    ELSE FromSemicolon(s, row, SkipSpace(s, row.next))

\* POS_RE matched from the start of s.
POS_RE_match(s) == AfterRow(s, MatchAxis(s, 1, "r"))

\* The match has to end where s ends.
WholeOnly(s, m) == IF m.matched /\ m.next = Len(s) + 1 THEN m ELSE NoGroups

\* A match that may stop before the end of s.
POS_RE_fullmatch_Prefix(s) == POS_RE_match(s)

\* POS_RE.fullmatch(s)
POS_RE_fullmatch(s) == WholeOnly(s, POS_RE_match(s))

----------------------------------------------------------------------------
(* parse_pos                                                               *)

\* Truth value of a group: None (and the empty string) are false.
Truthy(g) == g # None /\ g # <<>>

\* The end taken as written, one-based.
EndIndex_OneBased(g, start) == IF Truthy(g) THEN int(g) ELSE start

\* int(g) - 1 if g else start
EndIndex(g, start) == IF Truthy(g) THEN int(g) - 1 ELSE start

\* Only the rows are compared.
IsBackwards_RowsOnly(row_start, row_end, col_start, col_end) ==
    row_start > row_end

\* row_start > row_end or col_start > col_end
IsBackwards(row_start, row_end, col_start, col_end) ==
    row_start > row_end \/ col_start > col_end

MalformedText == "malformed position string: "

BackwardsText == "negative (backwards) span in "

\* if row_start > row_end or col_start > col_end: raise; else return
Checked(s, row_start, row_end, col_start, col_end) ==
    IF IsBackwards(row_start, row_end, col_start, col_end)
    THEN Raise("ValueError", BackwardsText, s)
    ELSE Return(<<row_start, row_end, col_start, col_end>>)

\* parse_pos from the match m on: indices are one-based in the input and
\* zero-based in the output.
FromMatch(s, m) ==
    IF ~m.matched THEN Raise("ValueError", MalformedText, s)
    ELSE Checked(s, int(m.rs) - 1, EndIndex(m.re, int(m.rs) - 1),
                 int(m.cs) - 1, EndIndex(m.ce, int(m.cs) - 1))

\* None has no strip().
parse_pos(s) ==
    IF s = None
    THEN Raise("AttributeError", "'NoneType' object has no attribute 'strip'", <<>>)
    ELSE FromMatch(s, POS_RE_fullmatch(Strip(s)))

----------------------------------------------------------------------------
(* The position strings parse_pos is applied to: each is written out from  *)
(* a style, the row numbers a[/b] and the column numbers c[/d] (an absent   *)
(* b or d is the empty tuple).                                             *)

Opt(S) == {<<>>} \cup {<<x>> : x \in S}

\* One-digit numbers and one number of two different digits.
Nums == (0 .. MaxNum) \cup {10 * MaxNum + 1}

RECURSIVE Decimal(_)
Decimal(n) ==
    IF n < 10 THEN <<Digits[n + 1]>>
    ELSE Decimal(n \div 10) \o <<Digits[(n % 10) + 1]>>

Range(lead, n, end) ==
    lead \o Decimal(n)
         \o (IF end = <<>> THEN <<>> ELSE <<"/">> \o lead \o Decimal(end[1]))

Axis(key, lead, n, end) == <<key, ":">> \o Range(lead, n, end)

\* Styles POS_RE accepts, and styles it does not.
GoodStyles == {"plain", "upper", "spaced", "padded"}

BadStyles == {"keys", "inner", "signed", "nosemi", "trailing", "swapped",
              "dangling", "split"}

Written(p) ==
    LET row(key, lead) == Axis(key, lead, p.a, p.b)
        col(key, lead) == Axis(key, lead, p.c, p.d)
    IN  CASE p.style = "plain"    -> row("r", <<>>) \o <<";">> \o col("c", <<>>)
          [] p.style = "upper"    -> row("R", <<>>) \o <<";">> \o col("C", <<>>)
          [] p.style = "spaced"   -> <<" ">> \o row("r", <<>>) \o <<" ", ";", "\t">>
                                         \o col("c", <<>>) \o <<" ">>
          [] p.style = "padded"   -> row("r", <<"0">>) \o <<";">> \o col("c", <<"0">>)
          [] p.style = "keys"     -> row("x", <<>>) \o <<";">> \o col("y", <<>>)
          [] p.style = "inner"    -> <<"r", ":", " ">> \o Range(<<>>, p.a, p.b)
                                         \o <<";">> \o col("c", <<>>)
          [] p.style = "signed"   -> row("r", <<"-">>) \o <<";">> \o col("c", <<>>)
          [] p.style = "nosemi"   -> row("r", <<>>) \o <<" ">> \o col("c", <<>>)
          [] p.style = "trailing" -> row("r", <<>>) \o <<";">> \o col("c", <<>>)
                                         \o <<";">>
          [] p.style = "swapped"  -> col("c", <<>>) \o <<";">> \o row("r", <<>>)
          [] p.style = "dangling" -> row("r", <<>>) \o <<";">> \o col("c", <<>>)
                                         \o <<"/">>
          [] p.style = "split"    -> row("r", <<>>) \o <<";">> \o <<"c", ":">>
                                         \o Decimal(p.c) \o <<" ">> \o Decimal(p.c)

PosParts ==
    [style : GoodStyles \cup BadStyles, a : Nums, b : Opt(Nums), c : Nums,
     d : Opt(Nums)]

NoParts == [style |-> "", a |-> 0, b |-> <<>>, c |-> 0, d |-> <<>>]

----------------------------------------------------------------------------
(* SpecPos: parse_pos applied to one position string.                      *)

InitPos ==
    /\ pc = "start"
    /\ call = NoCall
    /\ ret = Idle
    /\ pos_parts \in PosParts
    /\ pos_str = Written(pos_parts)
    /\ pos_result = Idle
    /\ dashboards = <<>>
    /\ layout = Idle
    /\ json = <<>>
    /\ built = Idle
    /\ items = <<>>
    /\ ty = ""
    /\ cal_out = <<>>

ParsePos ==
    /\ pc = "start"
    /\ pos_result' = parse_pos(pos_str)
    /\ pc' = "done"
    /\ UNCHANGED <<pos_parts, pos_str, dashboards, layout, json, built, items,
                   ty, cal_out,
                   call, ret>>

NextPos == ParsePos

SpecPos == InitPos /\ [][NextPos]_vars

----------------------------------------------------------------------------
(* What a written position string stands for.                              *)

EndOf(n, end) == IF end = <<>> THEN n ELSE end[1]

\* (a-1, b-1, c-1, d-1), an omitted b being a and an omitted d being c
ZeroBased(p) == <<p.a - 1, EndOf(p.a, p.b) - 1, p.c - 1, EndOf(p.c, p.d) - 1>>

WrittenBackwards(p) == p.a > EndOf(p.a, p.b) \/ p.c > EndOf(p.c, p.d)

Parsed == pc = "done" /\ pos_parts # NoParts

MatchesGrammar == pos_parts.style \in GoodStyles

IsMalformedError(r) ==
    r.raised = "ValueError" /\ r.msg.text = MalformedText /\ r.value = NoValue

IsBackwardsError(r) ==
    r.raised = "ValueError" /\ r.msg.text = BackwardsText /\ r.value = NoValue

IsTuple(r) == r.raised = "" /\ Len(r.value) = 4

\* C1: a position string that matches the grammar r:<a>[/<b>];c:<c>[/<d>]
\* and is not backwards parses to the zero-based tuple (a-1, b-1, c-1, d-1),
\* an omitted <b> giving row_end = row_start and an omitted <d> giving
\* col_end = col_start.
C1_ParsesToZeroBased ==
    (Parsed /\ MatchesGrammar /\ ~WrittenBackwards(pos_parts))
        => pos_result = Return(ZeroBased(pos_parts))

\* "r:2/3;c:1", whose column end is omitted, has been parsed to (1,2,0,0).
C1_Witness ==
    /\ Parsed
    /\ pos_str = <<"r", ":", "2", "/", "3", ";", "c", ":", "1">>
    /\ pos_result.value = <<1, 2, 0, 0>>

\* C2: for a position string that matches the grammar, parse_pos fails with
\* the backward-span error, returning no tuple, exactly when after
\* decrementing row_start > row_end or col_start > col_end; otherwise it
\* returns the tuple.
C2_BackwardsExactly ==
    (Parsed /\ MatchesGrammar)
        => /\ IsBackwardsError(pos_result) <=> WrittenBackwards(pos_parts)
           /\ IsTuple(pos_result) <=> ~WrittenBackwards(pos_parts)

\* "r:3;c:1/0" has been parsed and refused as backwards.
C2_Witness ==
    /\ Parsed
    /\ pos_str = <<"r", ":", "3", ";", "c", ":", "1", "/", "0">>
    /\ IsBackwardsError(pos_result)

\* C3: for a position string that does not match the grammar, parse_pos
\* fails with the malformed-position-string error, which carries the
\* offending string and differs from the backward-span error, and returns
\* no tuple.
C3_MalformedRejected ==
    (Parsed /\ ~MatchesGrammar)
        => /\ IsMalformedError(pos_result)
           /\ pos_result.msg.arg = pos_str
           /\ ~IsBackwardsError(pos_result)
           /\ ~IsTuple(pos_result)

\* "x:1;y:1" has been parsed and refused as malformed.
C3_Witness ==
    /\ Parsed
    /\ pos_str = <<"x", ":", "1", ";", "y", ":", "1">>
    /\ IsMalformedError(pos_result)

\* C4: every tuple parse_pos returns satisfies 0 <= row_start <= row_end and
\* 0 <= col_start <= col_end, for every accepted string including those
\* that use the integer 0.
C4_NonNegativeOrdered ==
    (Parsed /\ IsTuple(pos_result))
        => /\ 0 <= pos_result.value[1] /\ pos_result.value[1] <= pos_result.value[2]
           /\ 0 <= pos_result.value[3] /\ pos_result.value[3] <= pos_result.value[4]

----------------------------------------------------------------------------
(* build_layout                                                            *)

Max(S) == CHOOSE m \in S : \A x \in S : x <= m

Indices(seq) == 1 .. Len(seq)

\* The number of columns that hold a dashboard.
n_cols_Occupied(ds) == Cardinality({ds[i].col_start : i \in Indices(ds)})

\* max(d.col_end for d in dashboards) + 1
n_cols(ds) == Max({ds[i].col_end : i \in Indices(ds)}) + 1

\* Only the dashboard that comes first is looked at.
SpansColumns_FirstOnly(ds, i) == i = 1 /\ ds[i].col_start # ds[i].col_end

\* dashboard.col_start != dashboard.col_end
SpansColumns(ds, i) == ds[i].col_start # ds[i].col_end

\* dict.get(k, [])
GetOrEmpty(dict, k) == IF k \in DOMAIN dict THEN dict[k] ELSE <<>>

\* dashboards_by_col[col_start] = dashboards_by_col.get(col_start, []) + [dashboard]
\* A dict is a function from its keys.
Put(dict, d) ==
    [c \in DOMAIN dict \cup {d.col_start} |->
        IF c = d.col_start THEN GetOrEmpty(dict, c) \o <<d>> ELSE dict[c]]

\* dashboards_by_col after the first i dashboards.
RECURSIVE ByCol(_, _)
ByCol(ds, i) == IF i = 0 THEN <<>> ELSE Put(ByCol(ds, i - 1), ds[i])

\* d goes in front of the dashboards of its own row.
InsertByRow_BeforeTies(sorted, d) ==
    LET before == SelectSeq(sorted, LAMBDA e : e.row_start < d.row_start)
        after == SelectSeq(sorted, LAMBDA e : e.row_start >= d.row_start)
    IN  before \o <<d>> \o after

\* The dashboards are ordered by the row they end in.
InsertByRow_ByEnd(sorted, d) ==
    LET before == SelectSeq(sorted, LAMBDA e : e.row_end <= d.row_end)
        after == SelectSeq(sorted, LAMBDA e : e.row_end > d.row_end)
    IN  before \o <<d>> \o after

\* One step of a stable sort: d goes behind every dashboard already placed
\* whose row_start is not larger.
InsertByRow(sorted, d) ==
    LET before == SelectSeq(sorted, LAMBDA e : e.row_start <= d.row_start)
        after == SelectSeq(sorted, LAMBDA e : e.row_start > d.row_start)
    IN  before \o <<d>> \o after

\* sorted(v, key=lambda d: d.row_start), which is stable.
RECURSIVE SortedByRow(_)
SortedByRow(v) ==
    IF v = <<>> THEN <<>>
    ELSE InsertByRow(SortedByRow(SubSeq(v, 1, Len(v) - 1)), v[Len(v)])

\* col.add_row(row_dashboard.renderable) for each dashboard of the column
Rows(col) == [r \in Indices(col) |-> col[r].renderable]

\* The column grid of col_idx: the renderables of
\* dashboards_by_col.get(col_idx, []), sorted, top to bottom.
Column(ds, col_idx) ==
    Rows(SortedByRow(GetOrEmpty(ByCol(ds, Len(ds)), col_idx)))

EmptyMaxText == "max() arg is an empty sequence"

SpansText == "spans multiple columns, which is not (yet) supported"

\* The dashboard the loop stops at: the first that spans columns.
FirstOf(spanning) == CHOOSE i \in spanning : \A j \in spanning : i <= j

\* The loop raises at the first spanning dashboard; otherwise the root grid
\* is its one row, the column grids for range(n_cols).
Accumulated(ds, spanning) ==
    IF spanning # {}
    THEN Raise("ValueError", SpansText, ds[FirstOf(spanning)].name)
    ELSE Return([k \in 1 .. n_cols(ds) |-> Column(ds, k - 1)])

build_layout(ds) ==
    IF ds = <<>> THEN Raise("ValueError", EmptyMaxText, <<>>)
    ELSE Accumulated(ds, {i \in Indices(ds) : SpansColumns(ds, i)})

----------------------------------------------------------------------------
(* SpecLayout: build_layout applied to one list of dashboards.  A          *)
(* dashboard's span is one parse_pos returns: -1 <= start <= end.  Here    *)
(* its renderable and its name are its index in the list.                  *)

Spans == {<<rs, re, cs, ce>> \in (0 .. MaxRow) \X (0 .. MaxRow + 1)
                                 \X (-1 .. MaxCol) \X (-1 .. MaxCol + 1) :
             re = rs /\ ce \in {cs, cs + 1}}

SeqsUpTo(S, n) == UNION {[1 .. k -> S] : k \in 0 .. n}

Positioned(renderable, name, span) ==
    [renderable |-> renderable, name |-> name, row_start |-> span[1],
     row_end |-> span[2], col_start |-> span[3], col_end |-> span[4]]

InitLayout ==
    /\ pc = "start"
    /\ call = NoCall
    /\ ret = Idle
    /\ \E spans \in SeqsUpTo(Spans, MaxPanels) :
           dashboards = [i \in Indices(spans) |-> Positioned(i, i, spans[i])]
    /\ layout = Idle
    /\ pos_parts = NoParts
    /\ pos_str = <<>>
    /\ pos_result = Idle
    /\ json = <<>>
    /\ built = Idle
    /\ items = <<>>
    /\ ty = ""
    /\ cal_out = <<>>

BuildLayout ==
    /\ pc = "start"
    /\ layout' = build_layout(dashboards)
    /\ pc' = "done"
    /\ UNCHANGED <<pos_parts, pos_str, pos_result, dashboards, json, built,
                   items, ty, cal_out,
                   call, ret>>

NextLayout == BuildLayout

SpecLayout == InitLayout /\ [][NextLayout]_vars

LaidOut == pc = "done" /\ dashboards # <<>>

AnySpansColumns ==
    \E i \in Indices(dashboards) : dashboards[i].col_start # dashboards[i].col_end

IsSpanError(r) ==
    r.raised = "ValueError" /\ r.msg.text = SpansText /\ r.value = NoValue

\* C5: build_layout fails with the unsupported-column-span error whenever at
\* least one input panel has col_start # col_end, wherever that panel sits
\* in the input order, and then returns no grid.
C5_ColumnSpanRejected ==
    (LaidOut /\ AnySpansColumns) => IsSpanError(layout)

\* A list whose last dashboard, and only that one, spans two columns has
\* been refused.
C5_Witness ==
    /\ LaidOut
    /\ Len(dashboards) = MaxPanels
    /\ \A i \in Indices(dashboards) :
           (dashboards[i].col_start # dashboards[i].col_end) <=> i = MaxPanels
    /\ IsSpanError(layout)

\* The column count: one more than the largest col_end.
ColumnCount ==
    CHOOSE n \in -1 .. MaxCol + 2 :
        /\ \A i \in Indices(dashboards) : dashboards[i].col_end < n
        /\ \E i \in Indices(dashboards) : dashboards[i].col_end = n - 1

HoldsNoPanel(k) == \A i \in Indices(dashboards) : dashboards[i].col_start # k

\* C6: for a non-empty list of panels none of which spans columns,
\* build_layout emits exactly max(col_end) + 1 column tracks, one per column
\* index 0 .. count - 1 in increasing order, and a column index that holds
\* no panel still gets a track, an empty one.
C6_OneTrackPerColumn ==
    (LaidOut /\ ~AnySpansColumns)
        => /\ layout.raised = ""
           /\ DOMAIN layout.value = 1 .. ColumnCount
           /\ \A k \in 0 .. ColumnCount - 1 :
                  HoldsNoPanel(k) <=> layout.value[k + 1] = <<>>

\* A grid of two tracks has been emitted whose column 0 holds no panel.
C6_Witness ==
    /\ LaidOut
    /\ layout.raised = ""
    /\ Len(layout.value) = 2
    /\ HoldsNoPanel(0)
    /\ layout.value[1] = <<>>
    /\ layout.value[2] # <<>>

\* C7: in the grid build_layout emits, the track of column k holds exactly
\* the panels whose col_start is k, each once, ordered by ascending
\* row_start, panels of equal row_start keeping their input order.
C7_TracksSortedStable ==
    (LaidOut /\ layout.raised = "")
        => \A k \in 0 .. Len(layout.value) - 1 :
               LET track == layout.value[k + 1] IN
               /\ \A i \in Indices(dashboards) :
                      Cardinality({r \in Indices(track) : track[r] = i})
                          = IF dashboards[i].col_start = k THEN 1 ELSE 0
               /\ \A r1, r2 \in Indices(track) :
                      r1 < r2 =>
                          LET d1 == dashboards[track[r1]]
                              d2 == dashboards[track[r2]]
                          IN  \/ d1.row_start < d2.row_start
                              \/ /\ d1.row_start = d2.row_start
                                 /\ track[r1] < track[r2]

\* Panels at r:2;c:1, r:1;c:2, r:1;c:1 (in that input order) have been laid
\* out: column 0 holds the row-1 panel and then the row-2 panel, column 1
\* the single panel.
C7_Witness ==
    /\ LaidOut
    /\ Len(dashboards) = 3
    /\ <<dashboards[1].row_start, dashboards[1].col_start>> = <<1, 0>>
    /\ <<dashboards[2].row_start, dashboards[2].col_start>> = <<0, 1>>
    /\ <<dashboards[3].row_start, dashboards[3].col_start>> = <<0, 0>>
    /\ layout = Return(<< <<3, 1>>, <<2>> >>)

\* Two panels of the same column and row have been laid out with a panel of
\* an earlier row that came after them.
C7_WitnessTie ==
    /\ LaidOut
    /\ layout = Return(<< <<3, 1, 2>> >>)
    /\ dashboards[1].row_start = dashboards[2].row_start

----------------------------------------------------------------------------
(* build_dashboards                                                        *)

\* str.find("__"): the index of the leftmost "__" at or after i, 0 if none.
RECURSIVE FindDelimiter(_, _)
FindDelimiter(s, i) ==
    IF i + 1 > Len(s) THEN 0
    ELSE IF s[i] = "_" /\ s[i + 1] = "_" THEN i
    ELSE FindDelimiter(s, i + 1)

\* view_name_str.split("__", 1)
SplitOnce(s) ==
    LET i == FindDelimiter(s, 1) IN
    IF i = 0 THEN <<s>>
    ELSE <<SubSeq(s, 1, i - 1), SubSeq(s, i + 2, Len(s))>>

\* view_name_parts[1] if len(view_name_parts) > 1 else None
ViewPos(view_name_parts) ==
    IF Len(view_name_parts) > 1 THEN view_name_parts[2] ELSE None

\* What the view's data is displayed by, chosen by its data type.
Displayed(view_data_type) ==
    IF view_data_type = "events" \/ view_data_type = "daily_notes"
    THEN [by |-> "cal_dashboard", ty |-> view_data_type]
    ELSE IF view_data_type = "target_contexts"
    THEN [by |-> "context_minis", ty |-> "tasks"]
    ELSE [by |-> "display_items", ty |-> view_data_type]

\* Panel(displayed, title=view_name)
Panel(displayed, title) == [displayed |-> displayed, title |-> title]

\* self.row_start, ... = parse_pos(pos): what parse_pos raises leaves
\* __init__, and no dashboard comes to exist.
WithSpan(renderable, name, parsed) ==
    IF parsed.raised # "" THEN parsed
    ELSE Return(Positioned(renderable, name, parsed.value))

\* PositionedDashboard.__init__
PositionedDashboard(renderable, name, pos) ==
    WithSpan(renderable, name, parse_pos(pos))

\* The dashboard of one view.
ViewDashboard(view_name_parts, view_data_type) ==
    PositionedDashboard(Panel(Displayed(view_data_type), view_name_parts[1]),
                        view_name_parts[1], ViewPos(view_name_parts))

\* dashboards.append(...), unless making the dashboard raised.
Appended(sofar, made) ==
    IF made.raised # "" THEN made
    ELSE Return(Append(sofar.value, made.value))

\* One turn of the loop; nothing runs after a view has raised.
AddView(sofar, view) ==
    IF sofar.raised # "" THEN sofar
    ELSE Appended(sofar, ViewDashboard(SplitOnce(view.key), view.data_type))

\* The loop of build_dashboards over the first i views: the list dashboards,
\* or what the first failing view raised.
RECURSIVE BuildUpTo(_, _)
BuildUpTo(views, i) ==
    IF i = 0 THEN Return(<<>>)
    ELSE AddView(BuildUpTo(views, i - 1), views[i])

build_dashboards(views) == BuildUpTo(views, Len(views))

----------------------------------------------------------------------------
(* Spec: the program.  It reads the view mapping, builds the dashboards    *)
(* and lays them out.  A view's key is a name, followed or not by "__" and  *)
(* a position string.                                                      *)

Pos(style, a, b, c, d) ==
    Written([style |-> style, a |-> a, b |-> b, c |-> c, d |-> d])

ViewNames == {<<"a">>, <<"t", "o", "_", "d", "o">>}

\* r:1;c:1  r:2;c:1  r:1;c:2  r:1;c:1/2  r:0;c:1  r:3;c:1/0  x:1;y:1
ViewPositions ==
    {Pos("plain", 1, <<>>, 1, <<>>), Pos("plain", 2, <<>>, 1, <<>>),
     Pos("plain", 1, <<>>, 2, <<>>), Pos("plain", 1, <<>>, 1, <<2>>),
     Pos("plain", 0, <<>>, 1, <<>>), Pos("plain", 3, <<>>, 1, <<0>>),
     Pos("keys", 1, <<>>, 1, <<>>)}

ViewKeys ==
    ViewNames \cup {n \o <<"_", "_">> \o q : n \in ViewNames, q \in ViewPositions}

DataTypes == {"events", "tasks"}

Views == [key : ViewKeys, data_type : DataTypes]

\* The keys of a mapping are distinct.
Mappings ==
    {m \in SeqsUpTo(Views, MaxViews) :
        \A i, j \in Indices(m) : i # j => m[i].key # m[j].key}

Init ==
    /\ pc = "start"
    /\ call = NoCall
    /\ ret = Idle
    /\ json \in Mappings
    /\ built = Idle
    /\ dashboards = <<>>
    /\ layout = Idle
    /\ pos_parts = NoParts
    /\ pos_str = <<>>
    /\ pos_result = Idle
    /\ items = <<>>
    /\ ty = ""
    /\ cal_out = <<>>

\* dashboards = build_dashboards(json.load(sys.stdin), current_date)
BuildDashboards ==
    /\ pc = "start"
    /\ built' = build_dashboards(json)
    /\ dashboards' = built'.value
    /\ pc' = IF built'.raised = "" THEN "built" ELSE "done"
    /\ UNCHANGED <<pos_parts, pos_str, pos_result, layout, json, items, ty,
                   cal_out,
                   call, ret>>

\* layout = build_layout(dashboards)
LayOut ==
    /\ pc = "built"
    /\ layout' = build_layout(dashboards)
    /\ pc' = "done"
    /\ UNCHANGED <<pos_parts, pos_str, pos_result, dashboards, json, built,
                   items, ty, cal_out,
                   call, ret>>

Next == BuildDashboards \/ LayOut

Spec == Init /\ [][Next]_vars

Built == pc \in {"built", "done"} /\ json # <<>>

\* The suffix of every view is absent or a position string parse_pos accepts.
SuffixesAbsentOrAccepted ==
    \A i \in Indices(json) :
        LET parts == SplitOnce(json[i].key) IN
        Len(parts) = 1 \/ parse_pos(parts[2]).raised = ""

\* The text of a key in front of its first "__", the whole key if it has none.
NameBefore(key) ==
    CHOOSE n \in ViewNames :
        n = key \/ \E q \in ViewPositions : key = n \o <<"_", "_">> \o q

\* C8: build_dashboards produces one Positioned Panel per view, in input
\* order, titled with the view name that precedes the delimiter; the
\* position suffix is optional, so a view without one yields its panel too.
C8_OnePanelPerView ==
    (Built /\ SuffixesAbsentOrAccepted)
        => /\ built.raised = ""
           /\ Len(built.value) = Len(json)
           /\ \A i \in Indices(json) :
                  /\ built.value[i].name = NameBefore(json[i].key)
                  /\ built.value[i].renderable.title = NameBefore(json[i].key)

----------------------------------------------------------------------------
(* cal_dashboard                                                           *)

\* str.split(sep) for a one-character separator.
RECURSIVE SplitOn(_, _)
SplitOn(s, sep) ==
    IF \A i \in Indices(s) : s[i] # sep THEN <<s>>
    ELSE LET i == CHOOSE j \in Indices(s) :
                      s[j] = sep /\ \A h \in 1 .. j - 1 : s[h] # sep
         IN  <<SubSeq(s, 1, i - 1)>> \o SplitOn(SubSeq(s, i + 1, Len(s)), sep)

\* datetime.strptime(s, "%Y-%m-%d").date() of a string of that format: the
\* date (year, month, day), whether month and day are zero-padded or not.
strptime_date(s) ==
    LET fields == SplitOn(s, "-") IN
    <<int(fields[1]), int(fields[2]), int(fields[3])>>

\* The date of the end of an event that has one.
DateKey_End(item, t) ==
    IF t = "events"
    THEN IF item.timestamp.end # NoneDict
         THEN strptime_date(item.timestamp.end.date)
         ELSE strptime_date(item.timestamp.start.date)
    ELSE strptime_date(item.date)

\* The date an item is filed under: an event's start date, a note's date.
DateKey(item, t) ==
    IF t = "events" THEN strptime_date(item.timestamp.start.date)
    ELSE strptime_date(item.date)

HasDate(dailies, date) == \E j \in Indices(dailies) : dailies[j].date = date

\* A date not seen before is put in front of the others.
AddToDailies_NewFirst(dailies, date, item) ==
    IF HasDate(dailies, date)
    THEN [j \in Indices(dailies) |->
             IF dailies[j].date = date
             THEN [date |-> date, items |-> Append(dailies[j].items, item)]
             ELSE dailies[j]]
    ELSE <<[date |-> date, items |-> <<item>>]>> \o dailies

\* if date not in dailies: dailies[date] = []
\* dailies[date].append(item)
\* The dict is the list of its (key, value) pairs in insertion order.
AddToDailies(dailies, date, item) ==
    IF HasDate(dailies, date)
    THEN [j \in Indices(dailies) |->
             IF dailies[j].date = date
             THEN [date |-> date, items |-> Append(dailies[j].items, item)]
             ELSE dailies[j]]
    ELSE Append(dailies, [date |-> date, items |-> <<item>>])

\* dailies after the first i items.
RECURSIVE Dailies(_, _, _)
Dailies(its, t, i) ==
    IF i = 0 THEN <<>>
    ELSE AddToDailies(Dailies(its, t, i - 1), DateKey(its[i], t), its[i])

DayHeader(date) == [kind |-> "day_header", date |-> date, items |-> <<>>]

DisplayItems(its) == [kind |-> "display_items", date |-> <<>>, items |-> its]

BlankLine == [kind |-> "blank", date |-> <<>>, items |-> <<>>]

\* if idx != len(dailies): idx runs over 0 .. len(dailies) - 1
BlankAfter(idx, n) == IF idx # n THEN <<BlankLine>> ELSE <<>>

\* What the loop over dailies.items() yields for the first n days.
RECURSIVE DayGroups(_, _)
DayGroups(dailies, n) ==
    IF n = 0 THEN <<>>
    ELSE DayGroups(dailies, n - 1)
             \o <<DayHeader(dailies[n].date), DisplayItems(dailies[n].items)>>
             \o BlankAfter(n - 1, Len(dailies))

\* The loop rebinds the name items to the items of each day in turn, so the
\* test "if not items" after it reads the last day's items.
ItemsAfterLoop(its, dailies) ==
    IF dailies = <<>> THEN its ELSE dailies[Len(dailies)].items

\* Nothing is yielded after the loop over the days.
Yielded_NoEmptyPass(its, dailies) == DayGroups(dailies, Len(dailies))

\* What cal_dashboard yields once dailies is collected.
Yielded(its, dailies) ==
    DayGroups(dailies, Len(dailies))
        \o (IF ItemsAfterLoop(its, dailies) = <<>>
            THEN <<DisplayItems(<<>>)>> ELSE <<>>)

cal_dashboard(its, t) == Yielded(its, Dailies(its, t, Len(its)))

----------------------------------------------------------------------------
(* SpecCal: cal_dashboard applied to one list of events or of daily notes. *)
(* Every record falls on a day of January 2024, its date written           *)
(* zero-padded ("2024-01-02") or not ("2024-1-2").                          *)

DateStr(day, padded) ==
    <<"2", "0", "2", "4", "-">>
        \o (IF padded THEN <<"0", "1", "-", "0">> ELSE <<"1", "-">>)
        \o Decimal(day)

DateStrs == {DateStr(day, padded) : day \in 1 .. MaxDay, padded \in BOOLEAN}

\* An event ends on its day (no end) or is one that runs to the last day.
EventShapes ==
    [start : DateStrs, end : {NoneDict, [date |-> DateStr(MaxDay, TRUE)]}]

Event(id, shape) ==
    [id |-> id, timestamp |-> [start |-> [date |-> shape.start], end |-> shape.end]]

Note(id, date) == [id |-> id, date |-> date]

InitCal ==
    /\ pc = "start"
    /\ call = NoCall
    /\ ret = Idle
    /\ ty \in {"events", "daily_notes"}
    /\ IF ty = "events"
       THEN \E shapes \in SeqsUpTo(EventShapes, MaxItems) :
                items = [i \in Indices(shapes) |-> Event(i, shapes[i])]
       ELSE \E dates \in SeqsUpTo(DateStrs, MaxItems) :
                items = [i \in Indices(dates) |-> Note(i, dates[i])]
    /\ cal_out = <<>>
    /\ pos_parts = NoParts
    /\ pos_str = <<>>
    /\ pos_result = Idle
    /\ dashboards = <<>>
    /\ layout = Idle
    /\ json = <<>>
    /\ built = Idle

CalDashboard ==
    /\ pc = "start"
    /\ cal_out' = cal_dashboard(items, ty)
    /\ pc' = "done"
    /\ UNCHANGED <<pos_parts, pos_str, pos_result, dashboards, layout, json,
                   built, items, ty,
                   call, ret>>

NextCal == CalDashboard

SpecCal == InitCal /\ [][NextCal]_vars

Grouped == pc = "done" /\ items # <<>>

\* The day of January 2024 a record's own date string names.
WrittenDate(item) == IF ty = "events" THEN item.timestamp.start.date ELSE item.date

DayOf(item) ==
    CHOOSE day \in 1 .. MaxDay :
        WrittenDate(item) \in {DateStr(day, TRUE), DateStr(day, FALSE)}

\* The positions in cal_out of the day headers; the items of a day group are
\* the renderable that follows its header.
HeaderAt == {h \in Indices(cal_out) : cal_out[h].kind = "day_header"}

GroupItems(h) == cal_out[h + 1].items

HeaderDay(h) == cal_out[h].date[3]

\* C9: the day groups partition the input: each record is in exactly one
\* group, once, and that group is the one of its own date key; there is
\* exactly one day header per distinct date, also when the records of a
\* date are not adjacent in the input.
C9_GroupsPartitionInput ==
    Grouped
        => /\ \A h \in HeaderAt :
                  h < Len(cal_out) /\ cal_out[h + 1].kind = "display_items"
           /\ \A i \in Indices(items) :
                  /\ Cardinality({<<h, r>> \in HeaderAt \X Indices(items) :
                         /\ r \in Indices(GroupItems(h))
                         /\ GroupItems(h)[r] = items[i]}) = 1
                  /\ \E h \in HeaderAt :
                         /\ HeaderDay(h) = DayOf(items[i])
                         /\ cal_out[h].date = <<2024, 1, DayOf(items[i])>>
                         /\ \E r \in Indices(GroupItems(h)) :
                                GroupItems(h)[r] = items[i]
           /\ \A h1, h2 \in HeaderAt : h1 # h2 => HeaderDay(h1) # HeaderDay(h2)
           /\ \A h \in HeaderAt : GroupItems(h) # <<>>

\* Records of day 1, day 2 and day 1 again, the two of day 1 written
\* differently, have come out as two groups.
C9_Witness ==
    /\ Grouped
    /\ Len(items) = 3
    /\ <<DayOf(items[1]), DayOf(items[2]), DayOf(items[3])>> = <<1, 2, 1>>
    /\ WrittenDate(items[1]) # WrittenDate(items[3])
    /\ Cardinality(HeaderAt) = 2

FirstOccurrence(day) ==
    CHOOSE i \in Indices(items) :
        DayOf(items[i]) = day /\ \A j \in 1 .. i - 1 : DayOf(items[j]) # day

\* C10: the day groups appear in the order in which their dates first occur
\* in the input, never re-sorted into calendar order, and the records of a
\* day group keep their relative input order.
C10_FirstOccurrenceOrder ==
    Grouped
        => /\ \A h1, h2 \in HeaderAt :
                  h1 < h2 =>
                      FirstOccurrence(HeaderDay(h1)) < FirstOccurrence(HeaderDay(h2))
           /\ \A h \in HeaderAt :
                  \A r1, r2 \in Indices(GroupItems(h)) :
                      r1 < r2 => GroupItems(h)[r1].id < GroupItems(h)[r2].id

\* Records of day 2, day 1 and day 2 have come out with the group of day 2
\* first, holding its two records in input order.
C10_Witness ==
    /\ Grouped
    /\ Len(items) = 3
    /\ <<DayOf(items[1]), DayOf(items[2]), DayOf(items[3])>> = <<2, 1, 2>>
    /\ HeaderDay(1) = 2
    /\ GroupItems(1) = <<items[1], items[3]>>

\* The positions in cal_out of the rendering passes over no items.
EmptyPassAt == {k \in Indices(cal_out) : cal_out[k] = DisplayItems(<<>>)}

\* C11: cal_dashboard given an empty record sequence yields exactly one
\* rendering pass over no items and no day header; given a non-empty
\* sequence it yields no rendering pass over no items.
C11_EmptyPassIffEmptyInput ==
    pc = "done"
        => IF items = <<>>
           THEN cal_out = <<DisplayItems(<<>>)>> /\ HeaderAt = {}
           ELSE EmptyPassAt = {}

\* The empty sequence has been rendered as one pass over no items.
C11_Witness ==
    /\ pc = "done"
    /\ items = <<>>
    /\ Cardinality(EmptyPassAt) = 1

\* A sequence of records has been rendered without such a pass.
C11_WitnessNonEmpty ==
    /\ Grouped
    /\ Len(items) = MaxItems
    /\ EmptyPassAt = {}

----------------------------------------------------------------------------
(* Dates and format_date.  A date is the tuple (year, month, day), as       *)
(* strptime_date returns it.  The text a function puts together is the      *)
(* sequence of the literal pieces and the characters it is made of.         *)

IsLeap(year) == year % 4 = 0 /\ (year % 100 # 0 \/ year % 400 = 0)

DaysInMonth(year, month) ==
    IF month = 2 THEN (IF IsLeap(year) THEN 29 ELSE 28)
    ELSE IF month \in {4, 6, 9, 11} THEN 30 ELSE 31

RECURSIVE DaysBeforeMonth(_, _)
DaysBeforeMonth(year, month) ==
    IF month = 1 THEN 0
    ELSE DaysBeforeMonth(year, month - 1) + DaysInMonth(year, month - 1)

DaysBeforeYear(year) ==
    (year - 1) * 365 + ((year - 1) \div 4) - ((year - 1) \div 100)
        + ((year - 1) \div 400)

\* date.toordinal(): 1 for the first of January of year 1.
toordinal(date) ==
    DaysBeforeYear(date[1]) + DaysBeforeMonth(date[1], date[2]) + date[3]

\* date.weekday(): 0 for Monday.
weekday(date) == (toordinal(date) + 6) % 7

\* (date - current_date).days
days_difference(date, current_date) == toordinal(date) - toordinal(current_date)

weekdays ==
    <<"Monday", "Tuesday", "Wednesday", "Thursday", "Friday", "Saturday", "Sunday">>

\* weekdays[date.weekday()]
weekday_name(date) == weekdays[weekday(date) + 1]

\* %d, %m, %H, %M: two digits, zero-padded.
Pad2(n) == IF n < 10 THEN <<"0">> \o Decimal(n) ELSE Decimal(n)

\* date.strftime('%d/%m/%Y')
strftime_dmY(date) ==
    Pad2(date[3]) \o <<"/">> \o Pad2(date[2]) \o <<"/">> \o Decimal(date[1])

\* The test for "next" is made before the one for this week.
day_str_NextFirst(diff, date) ==
    IF diff = 0 THEN <<"today">>
    ELSE IF diff = 1 THEN <<"tomorrow">>
    ELSE IF diff = -1 THEN <<"yesterday">>
    ELSE IF 0 < diff /\ diff < 14 THEN <<"next ", weekday_name(date)>>
    ELSE IF 2 <= diff /\ diff < 7 THEN <<weekday_name(date)>>
    ELSE IF -7 < diff /\ diff < 0 THEN <<"last ", weekday_name(date)>>
    ELSE <<weekday_name(date), " ">> \o strftime_dmY(date)

\* The chain of tests on days_difference, in the order of the code.
day_str(diff, date) ==
    IF diff = 0 THEN <<"today">>
    ELSE IF diff = 1 THEN <<"tomorrow">>
    ELSE IF diff = -1 THEN <<"yesterday">>
    ELSE IF 2 <= diff /\ diff < 7 THEN <<weekday_name(date)>>
    ELSE IF -7 < diff /\ diff < 0 THEN <<"last ", weekday_name(date)>>
    ELSE IF 0 < diff /\ diff < 14 THEN <<"next ", weekday_name(date)>>
    ELSE <<weekday_name(date), " ">> \o strftime_dmY(date)

EndOfDay == <<"2", "3", ":", "5", "9">>

Midnight == <<"0", "0", ":", "0", "0">>

\* Only the end of the day stands for no time.
time_suffix_MidnightKept(time_str) ==
    IF Truthy(time_str) /\ time_str # EndOfDay
    THEN <<" at ">> \o time_str ELSE <<>>

\* if time_str and time_str != "23:59" and time_str != "00:00":
\*     day_str += f" at {time_str}"
time_suffix(time_str) ==
    IF Truthy(time_str) /\ time_str # EndOfDay /\ time_str # Midnight
    THEN <<" at ">> \o time_str ELSE <<>>

format_date(date, time_str, current_date) ==
    day_str(days_difference(date, current_date), date) \o time_suffix(time_str)

----------------------------------------------------------------------------
(* The inputs of format_date: a current date near the end of February of a *)
(* leap year or near the end of a year, a date at most MaxDiff days from    *)
(* it, and no time or a time of day as strftime("%H:%M") writes it.         *)

MaxDiff == 15

\* The lengths of the months of the years the dates fall in.
MonthLengths(year) ==
    IF year = 2024 THEN <<31, 29, 31, 30, 31, 30, 31, 31, 30, 31, 30, 31>>
    ELSE <<31, 28, 31, 30, 31, 30, 31, 31, 30, 31, 30, 31>>

NextDay(date) ==
    IF date[3] < MonthLengths(date[1])[date[2]] THEN <<date[1], date[2], date[3] + 1>>
    ELSE IF date[2] < 12 THEN <<date[1], date[2] + 1, 1>>
    ELSE <<date[1] + 1, 1, 1>>

PrevDay(date) ==
    IF date[3] > 1 THEN <<date[1], date[2], date[3] - 1>>
    ELSE IF date[2] > 1 THEN <<date[1], date[2] - 1, MonthLengths(date[1])[date[2] - 1]>>
    ELSE <<date[1] - 1, 12, 31>>

\* The date d days after date (before it, for a negative d).
RECURSIVE Shift(_, _)
Shift(date, d) ==
    IF d = 0 THEN date
    ELSE IF d > 0 THEN Shift(NextDay(date), d - 1)
    ELSE Shift(PrevDay(date), d + 1)

\* Sunday 25 February 2024 and Thursday 28 December 2023, with the index of
\* their weekday in weekdays.
CurrentDates ==
    {[date |-> <<2024, 2, 25>>, day |-> 7], [date |-> <<2023, 12, 28>>, day |-> 4]}

\* datetime.strftime("%H:%M")
strftime_HM(hour, minute) == Pad2(hour) \o <<":">> \o Pad2(minute)

Hours == {0, 9, 23}

Minutes == {0, 30, 59}

TimeStrs == {None} \cup {strftime_HM(h, m) : h \in Hours, m \in Minutes}

InitFormat ==
    /\ pc = "start"
    /\ \E cur \in CurrentDates, d \in (0 - MaxDiff) .. MaxDiff, time_str \in TimeStrs :
           call = [fn |-> "format_date", date |-> Shift(cur.date, d),
                   time_str |-> time_str, current_date |-> cur.date]
    /\ ret = Idle
    /\ pos_parts = NoParts
    /\ pos_str = <<>>
    /\ pos_result = Idle
    /\ dashboards = <<>>
    /\ layout = Idle
    /\ json = <<>>
    /\ built = Idle
    /\ items = <<>>
    /\ ty = ""
    /\ cal_out = <<>>

FormatDate ==
    /\ pc = "start"
    /\ call.fn = "format_date"
    /\ ret' = Return(format_date(call.date, call.time_str, call.current_date))
    /\ pc' = "done"
    /\ UNCHANGED <<pos_parts, pos_str, pos_result, dashboards, layout, json,
                   built, items, ty, cal_out, call>>


NextFormat == FormatDate

SpecFormat == InitFormat /\ [][NextFormat]_vars

Formatted == pc = "done" /\ call.fn = "format_date"

\* The day difference, counted by stepping from the current date day by day.
Diff ==
    CHOOSE d \in (0 - MaxDiff) .. MaxDiff : Shift(call.current_date, d) = call.date

\* The weekday of the date, counted on from the weekday of the current date.
TargetWeekday ==
    LET cur == CHOOSE c \in CurrentDates : c.date = call.current_date
    IN  weekdays[((cur.day - 1 + Diff) % 7) + 1]

TwoDigits(n) == <<Digits[(n \div 10) + 1], Digits[(n % 10) + 1]>>

\* The branches of format_date a day difference falls in, by the thresholds
\* of the humanizer.
Buckets(d) ==
    {b \in {"today", "tomorrow", "yesterday", "weekday", "last", "next", "full"} :
        \/ b = "today" /\ d = 0
        \/ b = "tomorrow" /\ d = 1
        \/ b = "yesterday" /\ d = -1
        \/ b = "weekday" /\ 2 <= d /\ d < 7
        \/ b = "last" /\ -7 < d /\ d < 0 /\ d # -1
        \/ b = "next" /\ 7 <= d /\ d <= 13
        \/ b = "full" /\ (d <= -7 \/ d >= 14)}

\* The day phrase of a branch for the date formatted.
Phrase(b) ==
    IF b \in {"today", "tomorrow", "yesterday"} THEN <<b>>
    ELSE IF b = "weekday" THEN <<TargetWeekday>>
    ELSE IF b = "last" THEN <<"last ", TargetWeekday>>
    ELSE IF b = "next" THEN <<"next ", TargetWeekday>>
    ELSE <<TargetWeekday, " ">> \o TwoDigits(call.date[3]) \o <<"/">>
             \o TwoDigits(call.date[2]) \o <<"/">> \o Decimal(call.date[1])

\* text begins with phrase, and what follows is nothing or a time suffix.
IsDayPhraseOf(phrase, text) ==
    /\ Len(text) >= Len(phrase)
    /\ SubSeq(text, 1, Len(phrase)) = phrase
    /\ Len(text) > Len(phrase) => text[Len(phrase) + 1] = " at "

\* C12: for every day difference d exactly one branch of format_date
\* applies, and the day phrase is the one of that branch: 0 today, 1
\* tomorrow, -1 yesterday, 2 <= d < 7 the bare weekday, -7 < d < 0 other
\* than -1 "last <weekday>", 7 <= d <= 13 "next <weekday>", d <= -7 or
\* d >= 14 "<weekday> DD/MM/YYYY"; so for the boundary values -8, -7, -1,
\* 0, 1, 2, 6, 7, 13 and 14.
C12_OneBranchPerDifference ==
    Formatted
        => /\ Cardinality(Buckets(Diff)) = 1
           /\ \A b \in Buckets(Diff) : IsDayPhraseOf(Phrase(b), ret.value)

\* A date 13 days ahead, in the next month over the 29th of February, has
\* been formatted as "next Saturday".
C12_Witness ==
    /\ Formatted
    /\ Diff = 13
    /\ call.date = <<2024, 3, 9>>
    /\ call.time_str = None
    /\ ret.value = <<"next ", "Saturday">>

\* A date 7 days back has been formatted with its full date.
C12_WitnessFull ==
    /\ Formatted
    /\ Diff = -7
    /\ call.time_str = None
    /\ ret.value = <<"Thursday", " ", "2", "1", "/", "1", "2", "/", "2", "0", "2", "3">>

----------------------------------------------------------------------------
(* DisplayAdditional, Timestamp, DisplayItem and transform_item.           *)
(* The value of an additional is None, a string or a datetime; the three   *)
(* are told apart by their type, as isinstance does.                       *)

NoneValue == [type |-> "NoneType"]

Str(s) == [type |-> "str", s |-> s]

Datetime(date, hour, minute, second) ==
    [type |-> "datetime", date |-> date, hour |-> hour, minute |-> minute,
     second |-> second]

\* A field of a record, None or a string, as a value.
Value(field) == IF field = None THEN NoneValue ELSE Str(field)

DisplayAdditional(name, value, color) ==
    [name |-> name, value |-> value, color |-> color]

\* DisplayAdditional.get_value_str
get_value_str(additional, current_date) ==
    IF additional.value.type = "NoneType" THEN None
    ELSE IF additional.value.type = "datetime"
    THEN format_date(additional.value.date,
                     strftime_HM(additional.value.hour, additional.value.minute),
                     current_date)
    ELSE additional.value.s

EndsWith(s, suffix) ==
    /\ Len(s) >= Len(suffix)
    /\ SubSeq(s, Len(s) - Len(suffix) + 1, Len(s)) = suffix

StartsWith(s, prefix) ==
    /\ Len(s) >= Len(prefix)
    /\ SubSeq(s, 1, Len(prefix)) = prefix

\* str.removesuffix
removesuffix(s, suffix) ==
    IF EndsWith(s, suffix) THEN SubSeq(s, 1, Len(s) - Len(suffix)) ELSE s

\* if self.start: self.start = self.start.removesuffix(":00")
StripSeconds(time) ==
    IF Truthy(time) THEN removesuffix(time, <<":", "0", "0">>) ELSE time

\* Timestamp.__init__: end keeps the class default None when ts_obj has no end.
Timestamp(ts_obj) ==
    [start |-> StripSeconds(ts_obj.start.time),
     end |-> IF ts_obj.end # NoneDict THEN StripSeconds(ts_obj.end.time) ELSE None]

DisplayItem(title, body, additionals, time, people) ==
    [title |-> title, body |-> body, additionals |-> additionals,
     time |-> time, people |-> people]

\* datetime.strptime(s, "%Y-%m-%d")
strptime_Ymd(s) == Datetime(strptime_date(s), 0, 0, 0)

\* The fields of "%H:%M:%S".
strptime_HMS(date, fields) ==
    Datetime(date, int(fields[1]), int(fields[2]), int(fields[3]))

\* The two sides of the "T" of "%Y-%m-%dT%H:%M:%S".
strptime_Parts(parts) ==
    strptime_HMS(strptime_date(parts[1]), SplitOn(parts[2], ":"))

\* datetime.strptime(s, "%Y-%m-%dT%H:%M:%S")
strptime_YmdTHMS(s) == strptime_Parts(SplitOn(s, "T"))

\* datetime.strptime(item[...], "%Y-%m-%dT%H:%M:%S") if item[...] else None
DatetimeOrNone(field) ==
    IF Truthy(field) THEN strptime_YmdTHMS(field) ELSE NoneValue

\* datetime.strptime(item["sent"], "%Y-%m-%d") if item["sent"] else None
DateOrNone(field) ==
    IF Truthy(field) THEN strptime_Ymd(field) ELSE NoneValue

\* ", ".join(list)
RECURSIVE Join(_)
Join(list) ==
    IF list = <<>> THEN <<>>
    ELSE IF Len(list) = 1 THEN list[1]
    ELSE list[1] \o <<",", " ">> \o Join(Tail(list))

\* ", ".join(item["contexts"]) if item["contexts"] else None
ContextsOrNone(contexts) ==
    IF contexts # None /\ contexts # <<>> THEN Str(Join(contexts)) ELSE NoneValue

\* The title of a task is the title of the record, whether it can start or not.
TaskTitle_Plain(item) == item.title

\* f"[NEXT] {item['title']}" if not item["can_start"] else item["title"]
TaskTitle(item) ==
    IF ~item.can_start THEN <<"[NEXT] ">> \o item.title ELSE item.title

Scheduled(item) ==
    DisplayAdditional("Scheduled", DatetimeOrNone(item.scheduled), "dark_orange3")

Deadline(item) ==
    DisplayAdditional("Deadline", DatetimeOrNone(item.deadline), "red")

Priority(item) == DisplayAdditional("Priority", Value(item.priority), "green4")

\* Every type gets an item, an empty one.
transform_item_Lenient(item, t) ==
    DisplayItem(<<>>, None, <<>>, NoneDict, <<>>)

transform_item(item, t) ==
    IF t = "events"
    THEN DisplayItem(item.title, item.body,
             <<DisplayAdditional("Location", Value(item.location), "dodger_blue1")>>,
             Timestamp(item.timestamp), item.people)
    ELSE IF t = "daily_notes"
    THEN DisplayItem(item.title, item.body, <<>>, NoneDict, <<>>)
    ELSE IF t = "tickles"
    THEN DisplayItem(item.title, item.body,
             <<DisplayAdditional("Appeared", strptime_Ymd(item.date), "dodger_blue1")>>,
             NoneDict, <<>>)
    ELSE IF t = "person_dates"
    THEN DisplayItem(item.title, item.body,
             <<DisplayAdditional("Date", strptime_Ymd(item.date), "dodger_blue1"),
               DisplayAdditional("Person", Value(item.person[2]), "")>>,
             NoneDict, <<>>)
    ELSE IF t = "tasks"
    THEN DisplayItem(TaskTitle(item), item.body,
             <<Scheduled(item), Deadline(item), Priority(item),
               DisplayAdditional("Context", ContextsOrNone(item.contexts), "dodger_blue1"),
               DisplayAdditional("Effort", Value(item.effort), "blue")>>,
             NoneDict, item.people)
    ELSE IF t = "projects"
    THEN DisplayItem(item.title, item.body,
             <<Scheduled(item), Deadline(item), Priority(item)>>,
             NoneDict, <<>>)
    ELSE IF t = "waitings"
    THEN DisplayItem(item.title, item.body,
             <<Scheduled(item), Deadline(item),
               DisplayAdditional("Sent", DateOrNone(item.sent), "dodger_blue1")>>,
             NoneDict, <<>>)
    ELSE NoneDict

\* The characters of the names of contexts and of their titles, in the order
\* of their code points.
Chars ==
    <<" ">> \o Digits
        \o <<"A", "B", "C", "D", "E", "F", "G", "H", "I", "J", "K", "L", "M",
                "N", "O", "P", "Q", "R", "S", "T", "U", "V", "W", "X", "Y", "Z",
                "_",
                "a", "b", "c", "d", "e", "f", "g", "h", "i", "j", "k", "l", "m",
                "n", "o", "p", "q", "r", "s", "t", "u", "v", "w", "x", "y", "z">>

\* ord(ch), up to where the first character stands.
Ord(ch) == CHOOSE k \in Indices(Chars) : Chars[k] = ch

IsUpperCase(ch) == Ord(ch) > Ord("9") /\ Ord(ch) < Ord("_")

IsLowerCase(ch) == Ord(ch) > Ord("_")

ToUpper(ch) ==
    IF IsLowerCase(ch) THEN Chars[Ord(ch) - Ord("a") + Ord("A")] ELSE ch

ToLower(ch) ==
    IF IsUpperCase(ch) THEN Chars[Ord(ch) - Ord("A") + Ord("a")] ELSE ch

\* str.capitalize(): the first character upper case, the others lower case.
capitalize(s) ==
    [k \in Indices(s) |-> IF k = 1 THEN ToUpper(s[k]) ELSE ToLower(s[k])]

\* transform_item of src/display.py: that of src/scripts/display.py, and a
\* branch for target_contexts, whose items are the names of the contexts.
transform_item_legacy(item, t) ==
    IF t = "target_contexts"
    THEN DisplayItem(capitalize(item), None, <<>>, NoneDict, <<>>)
    ELSE transform_item(item, t)

----------------------------------------------------------------------------
(* DisplayItem.display and display_items.  A renderable is a Text (its      *)
(* markup and style), a Padding around the Markdown of a body (its four     *)
(* paddings: top, right, bottom, left) or a Group of renderables.           *)

NoPad == <<0, 0, 0, 0>>

Text(markup, style) ==
    [kind |-> "Text", text |-> markup, style |-> style, pad |-> NoPad,
     parts |-> <<>>]

Padding(markdown, pad) ==
    [kind |-> "Padding", text |-> markdown, style |-> "", pad |-> pad,
     parts |-> <<>>]

Group(parts) ==
    [kind |-> "Group", text |-> <<>>, style |-> "", pad |-> NoPad,
     parts |-> parts]

\* A start alone decides the phrase.
time_str_StartOnly(time) ==
    IF Truthy(time.start) THEN <<"from ">> \o time.start ELSE <<"all day">>

\* The time phrase of a Timestamp.
time_str(time) ==
    IF Truthy(time.start) /\ Truthy(time.end)
    THEN <<"from ">> \o time.start \o <<" to ">> \o time.end
    ELSE IF Truthy(time.start) THEN <<"from ">> \o time.start
    ELSE IF Truthy(time.end) THEN <<"until ">> \o time.end
    ELSE <<"all day">>

\* Title and timestamp, if one exists
TitleLine(title, time) ==
    IF time # NoneDict
    THEN Text(<<"-> [bold]">> \o title \o <<" [yellow]">> \o time_str(time)
                  \o <<"[/yellow][/bold]">>, "")
    ELSE Text(<<"-> [bold]">> \o title \o <<"[/bold]">>, "")

\* The line of one additional, if get_value_str gives a true value.
AdditionalLine(additional, value_str) ==
    IF Truthy(value_str)
    THEN <<Text(<<"  ", additional.name, ": [bold ", additional.color, "]">>
                    \o value_str \o <<"[/bold ", additional.color, "]">>,
                "italic")>>
    ELSE <<>>

\* The lines of the first n additionals.
RECURSIVE AdditionalLines(_, _, _)
AdditionalLines(additionals, current_date, n) ==
    IF n = 0 THEN <<>>
    ELSE AdditionalLines(additionals, current_date, n - 1)
             \o AdditionalLine(additionals[n],
                               get_value_str(additionals[n], current_date))

PersonLine(person) ==
    Text(<<"    - [bold]">> \o person[2] \o <<"[/bold]">>, "italic")

PeopleLines(people) ==
    IF Len(people) > 0
    THEN <<Text(<<"  People needed:">>, "italic")>>
             \o [i \in Indices(people) |-> PersonLine(people[i])]
    ELSE <<>>

\* 1 if not body.startswith("- ") and not body.startswith("1. ") else 0
PadTop(body) ==
    IF ~StartsWith(body, <<"-", " ">>) /\ ~StartsWith(body, <<"1", ".", " ">>)
    THEN 1 ELSE 0

\* 1 if not is_last else 0
PadBottom(is_last) == IF ~is_last THEN 1 ELSE 0

\* An item without a body is followed by nothing.
BodyLines_NoSpacer(body, is_last) ==
    IF Truthy(body)
    THEN <<Padding(body, <<PadTop(body), 0, PadBottom(is_last), 2>>)>>
    ELSE <<>>

BodyLines(body, is_last) ==
    IF Truthy(body)
    THEN <<Padding(body, <<PadTop(body), 0, PadBottom(is_last), 2>>)>>
    ELSE IF ~is_last THEN <<Text(<<>>, "")>>
    ELSE <<>>

\* DisplayItem.display
display(self, current_date, is_last) ==
    Group(<<TitleLine(self.title, self.time)>>
              \o AdditionalLines(self.additionals, current_date,
                                 Len(self.additionals))
              \o PeopleLines(self.people)
              \o BodyLines(self.body, is_last))

\* if not display_item: continue
\* yield display_item.display(current_date, idx == len(items) - 1)
Shown(display_item, current_date, is_last) ==
    IF display_item = NoneDict THEN <<>>
    ELSE <<display(display_item, current_date, is_last)>>

\* What the loop of display_items yields for the first n items.
RECURSIVE Displays(_, _, _, _)
Displays(its, t, current_date, n) ==
    IF n = 0 THEN <<>>
    ELSE Displays(its, t, current_date, n - 1)
             \o Shown(transform_item(its[n], t), current_date, n = Len(its))

NoItemsFound == Text(<<"[red italic]", "No items found.", "[/red italic]">>, "")

display_items(its, t, current_date) ==
    Group(Displays(its, t, current_date, Len(its))
              \o (IF its = <<>> THEN <<NoItemsFound>> ELSE <<>>))

----------------------------------------------------------------------------
(* The records display_items is given.  A list of up to MaxRecords records *)
(* of one type holds one record of any shape of the type, at any place,    *)
(* among records with no optional field set but, all alike, a body or      *)
(* none.  Dates and times are written as the records carry them:           *)
(* "2024-02-25", "09:30:00", "2024-02-25T09:30:00".                         *)

MaxRecords == 2

isoformat(date) ==
    Decimal(date[1]) \o <<"-">> \o Pad2(date[2]) \o <<"-">> \o Pad2(date[3])

IsoTime(hour, minute, second) ==
    Pad2(hour) \o <<":">> \o Pad2(minute) \o <<":">> \o Pad2(second)

IsoDatetime(date, hour, minute, second) ==
    isoformat(date) \o <<"T">> \o IsoTime(hour, minute, second)

Title(i) == <<"T">> \o Decimal(i)

ContextName(i) == <<"c">> \o Decimal(i)

RecordTypes ==
    {"events", "daily_notes", "tickles", "person_dates", "tasks", "projects",
     "waitings"}

\* The type tags a caller may pass; "goals" is none the code knows.
TypeTags == RecordTypes \cup {"target_contexts", "goals"}

Bodies == {None, <<"b">>}

NoteBodies == {None, <<>>, <<"b">>, <<"-", " ", "x">>, <<"1", ".", " ", "x">>}

Strings(s) == {None, <<>>, s}

Peoples == {<<>>, << <<<<"p">>, <<"A", "n", "n">>>> >>}

StartTimes == {None, <<>>, IsoTime(10, 0, 0), IsoTime(9, 30, 15)}

EndTimes == {None, IsoTime(11, 0, 0), IsoTime(10, 45, 30)}

Timestamps(cur) ==
    [start : [date : {isoformat(cur)}, time : StartTimes],
     end : {NoneDict} \cup [date : {isoformat(cur)}, time : EndTimes]]

Schedules(cur) ==
    {None, <<>>, IsoDatetime(Shift(cur, 1), 9, 30, 0), IsoDatetime(cur, 0, 0, 0)}

Deadlines(cur) == {None, IsoDatetime(Shift(cur, 8), 23, 59, 0)}

NearDates(cur) == {isoformat(Shift(cur, k)) : k \in {-3, 0, 1}}

\* The fields of a record of type t, its title apart.
Shapes(t, cur) ==
    IF t = "events"
    THEN [body : Bodies, location : Strings(<<"H", "Q">>),
          timestamp : Timestamps(cur), people : Peoples]
    ELSE IF t = "tickles"
    THEN [body : Bodies, date : NearDates(cur)]
    ELSE IF t = "person_dates"
    THEN [body : Bodies, date : NearDates(cur),
          person : {<<<<"p">>, name>> : name \in {<<>>, <<"A", "l">>}}]
    ELSE IF t = "tasks"
    THEN [body : Bodies, can_start : BOOLEAN, scheduled : Schedules(cur),
          deadline : Deadlines(cur), priority : Strings(<<"A">>),
          contexts : {<<>>, <<ContextName(1)>>, <<ContextName(1), ContextName(2)>>},
          effort : Strings(<<"2", "h">>), people : Peoples]
    ELSE IF t = "projects"
    THEN [body : Bodies, scheduled : Schedules(cur), deadline : Deadlines(cur),
          priority : Strings(<<"A">>)]
    ELSE IF t = "waitings"
    THEN [body : Bodies, scheduled : Deadlines(cur), deadline : Deadlines(cur),
          sent : {None, <<>>} \cup NearDates(cur)]
    ELSE [body : NoteBodies]

\* The record of type t with no optional field set.
PlainShape(t, cur, body) ==
    IF t = "events"
    THEN [body |-> body, location |-> None,
          timestamp |-> [start |-> [date |-> isoformat(cur), time |-> None],
                         end |-> NoneDict],
          people |-> <<>>]
    ELSE IF t = "tickles"
    THEN [body |-> body, date |-> isoformat(cur)]
    ELSE IF t = "person_dates"
    THEN [body |-> body, date |-> isoformat(cur), person |-> <<<<"p">>, <<"A", "l">>>>]
    ELSE IF t = "tasks"
    THEN [body |-> body, can_start |-> TRUE, scheduled |-> None,
          deadline |-> None, priority |-> None, contexts |-> <<>>,
          effort |-> None, people |-> <<>>]
    ELSE IF t = "projects"
    THEN [body |-> body, scheduled |-> None, deadline |-> None, priority |-> None]
    ELSE IF t = "waitings"
    THEN [body |-> body, scheduled |-> None, deadline |-> None, sent |-> None]
    ELSE [body |-> body]

Titled(i, shape) == [title |-> Title(i)] @@ shape

Records(t, cur, n, at, shape, body) ==
    [i \in 1 .. n |->
        Titled(i, IF i = at THEN shape ELSE PlainShape(t, cur, body))]

\* The length of a list and the place in it of the record of any shape.
Places == {place \in (1 .. MaxRecords) \X (1 .. MaxRecords) : place[2] <= place[1]}

\* The items of a type: for target_contexts the names of the contexts, as
\* iterating over the mapping of a view gives them.
ItemLists(t, cur) ==
    IF t = "target_contexts"
    THEN {[i \in 1 .. n |-> ContextName(i)] : n \in 0 .. MaxRecords}
    ELSE {<<>>} \cup
         {Records(t, cur, place[1], place[2], shape, body) :
              place \in Places, shape \in Shapes(t, cur), body \in Bodies}

InitItems ==
    /\ pc = "start"
    /\ \E cur \in CurrentDates, t \in TypeTags :
           \E its \in ItemLists(t, cur.date) :
               call = [fn |-> "display_items", items |-> its, ty |-> t,
                       current_date |-> cur.date]
    /\ ret = Idle
    /\ pos_parts = NoParts
    /\ pos_str = <<>>
    /\ pos_result = Idle
    /\ dashboards = <<>>
    /\ layout = Idle
    /\ json = <<>>
    /\ built = Idle
    /\ items = <<>>
    /\ ty = ""
    /\ cal_out = <<>>

\* The Display Items (or None) the calls of transform_item return.
Transformed(its, t) == [i \in Indices(its) |-> transform_item(its[i], t)]

\* The same of the transform_item of src/display.py.
TransformedLegacy(its, t) ==
    [i \in Indices(its) |-> transform_item_legacy(its[i], t)]

\* display_items(items, ty, current_date), rendered: the Display Items made
\* on the way, those the transform_item of src/display.py makes of the same
\* records, and the Group that results.
CallDisplayItems ==
    /\ pc = "start"
    /\ call.fn = "display_items"
    /\ ret' = Return([transformed |-> Transformed(call.items, call.ty),
                      legacy |-> TransformedLegacy(call.items, call.ty),
                      displayed |-> display_items(call.items, call.ty,
                                                  call.current_date)])
    /\ pc' = "done"
    /\ UNCHANGED <<pos_parts, pos_str, pos_result, dashboards, layout, json,
                   built, items, ty, cal_out, call>>


----------------------------------------------------------------------------
(* The mini dashboards build_dashboards makes of a target_contexts view:   *)
(* view_data maps the name of a context to its tasks; it is the list of    *)
(* its (key, value) pairs in insertion order.                               *)

\* a < b for strings, as Python compares them.
RECURSIVE StrLess(_, _)
StrLess(a, b) ==
    IF b = <<>> THEN FALSE
    ELSE IF a = <<>> THEN TRUE
    ELSE IF a[1] # b[1] THEN Ord(a[1]) < Ord(b[1])
    ELSE StrLess(Tail(a), Tail(b))

\* pair put into a list sorted by key, behind the pairs of an equal key.
RECURSIVE InsertByKey(_, _)
InsertByKey(sorted, pair) ==
    IF sorted = <<>> THEN <<pair>>
    ELSE IF StrLess(pair[1], sorted[1][1]) THEN <<pair>> \o sorted
    ELSE <<sorted[1]>> \o InsertByKey(Tail(sorted), pair)

\* The pairs in the order of the mapping.
SortedByKey_AsGiven(pairs, n) == SubSeq(pairs, 1, n)

\* sorted(view_data.items(), key=lambda x: x[0]): the first n pairs, sorted.
RECURSIVE SortedByKey(_, _)
SortedByKey(pairs, n) ==
    IF n = 0 THEN <<>> ELSE InsertByKey(SortedByKey(pairs, n - 1), pairs[n])

\* str.replace for single characters.
replace(s, old, new) == [k \in Indices(s) |-> IF s[k] = old THEN new ELSE s[k]]

\* Text.from_markup(..., justify="center")
Centered(markup) == Text(markup, "center")

\* Text() if i != len(view_data) - 1 else Group()
MiniEnd(i, len) == IF i # len - 1 THEN Text(<<>>, "") ELSE Group(<<>>)

\* The mini dashboard of the context at index i (from 0) of len contexts.
ContextMini(context, tasks, current_date, i, len) ==
    Group(<<Centered(<<"[bold]">> \o capitalize(replace(context, "_", " "))
                         \o <<"[/bold]">>),
            Text(<<>>, ""),
            display_items(tasks, "tasks", current_date),
            MiniEnd(i, len)>>)

ContextMinis(sorted, current_date) ==
    Group([k \in Indices(sorted) |->
              ContextMini(sorted[k][1], sorted[k][2], current_date, k - 1,
                          Len(sorted))])

\* displayed, for view_data_type == "target_contexts"
context_minis(view_data, current_date) ==
    ContextMinis(SortedByKey(view_data, Len(view_data)), current_date)

MaxContexts == 2

ContextKeys ==
    {<<"h", "o", "m", "e">>, <<"a", "t", "_", "d", "e", "s", "k">>,
     <<"W", "o", "r", "k">>}

\* The tasks of a context, by whether each can start; titles are distinct.
ContextTasks(k, can_start) ==
    [i \in Indices(can_start) |->
        Titled(10 * k + i,
               [PlainShape("tasks", <<>>, None) EXCEPT !.can_start = can_start[i]])]

ViewData ==
    {[k \in Indices(keys) |-> <<keys[k], ContextTasks(k, flags[k])>>] :
        keys \in {ks \in SeqsUpTo(ContextKeys, MaxContexts) :
                     \A i, j \in Indices(ks) : i # j => ks[i] # ks[j]},
        flags \in [1 .. MaxContexts ->
                      {<<>>, <<TRUE>>, <<FALSE>>, <<FALSE, TRUE>>}]}

InitMinis ==
    /\ pc = "start"
    /\ \E cur \in CurrentDates, view_data \in ViewData :
           call = [fn |-> "context_minis", view_data |-> view_data,
                   current_date |-> cur.date]
    /\ ret = Idle
    /\ pos_parts = NoParts
    /\ pos_str = <<>>
    /\ pos_result = Idle
    /\ dashboards = <<>>
    /\ layout = Idle
    /\ json = <<>>
    /\ built = Idle
    /\ items = <<>>
    /\ ty = ""
    /\ cal_out = <<>>

\* The branch of build_dashboards for a target_contexts view.
CallContextMinis ==
    /\ pc = "start"
    /\ call.fn = "context_minis"
    /\ ret' = Return([transformed |-> <<>>, legacy |-> <<>>,
                      displayed |-> context_minis(call.view_data,
                                                  call.current_date)])
    /\ pc' = "done"
    /\ UNCHANGED <<pos_parts, pos_str, pos_result, dashboards, layout, json,
                   built, items, ty, cal_out, call>>

InitDisplay == InitFormat \/ InitItems \/ InitMinis

NextDisplay == FormatDate \/ CallDisplayItems \/ CallContextMinis

SpecDisplay == InitDisplay /\ [][NextDisplay]_vars


Displayed_Items == pc = "done" /\ call.fn = "display_items"

\* The groups display_items has yielded, one per Display Item; for a type
\* of records, the i-th is the rendering of the i-th record.
ItemGroups == ret.value.displayed.parts

\* The lines of a group that show the additional of a name.
LinesOf(group, name) ==
    {l \in Indices(group.parts) :
        /\ group.parts[l].kind = "Text"
        /\ Len(group.parts[l].text) >= 3
        /\ group.parts[l].text[1] = "  "
        /\ group.parts[l].text[2] = name}

HasPiece(text, piece) == \E k \in Indices(text) : text[k] = piece

DateOnlyTypes == {"tickles", "person_dates", "waitings"}

DateOnlyNames == {"Appeared", "Date", "Sent"}

\* C13: format_date appends " at <time>" to the day phrase if and only if
\* a time string is given and is neither "23:59" nor "00:00", and the day
\* phrase is the same with and without it; the lines of the additionals
\* made of date-only fields (Appeared, Date, Sent) carry no " at".
C13_TimeSuffixIffRealTime ==
    /\ Formatted
           => \A b \in Buckets(Diff) :
                  ret.value =
                      Phrase(b) \o
                          (IF /\ call.time_str # None
                              /\ call.time_str # <<"2", "3", ":", "5", "9">>
                              /\ call.time_str # <<"0", "0", ":", "0", "0">>
                           THEN <<" at ">> \o call.time_str
                           ELSE <<>>)
    /\ Displayed_Items /\ call.ty \in DateOnlyTypes
           => \A i \in Indices(ItemGroups) :
                  \A name \in DateOnlyNames :
                      \A l \in LinesOf(ItemGroups[i], name) :
                          ~HasPiece(ItemGroups[i].parts[l].text, " at ")

\* A date two days ahead has been formatted with the time 09:30.
C13_Witness ==
    /\ Formatted
    /\ Diff = 2
    /\ call.time_str = <<"0", "9", ":", "3", "0">>
    /\ ret.value = <<"Tuesday", " at ", "0", "9", ":", "3", "0">>

\* A waiting item sent three days before has been rendered with its Sent line.
C13_WitnessDateOnly ==
    /\ Displayed_Items
    /\ call.ty = "waitings"
    /\ Len(call.items) = 1
    /\ call.items[1].sent = isoformat(Shift(call.current_date, -3))
    /\ LinesOf(ItemGroups[1], "Sent") # {}

\* The value an additional line must show: a string as it is, a date and
\* time as some phrase.
ShowsValue(text, additional) ==
    /\ Len(text) > 7
    /\ SubSeq(text, 1, 5) = <<"  ", additional.name, ": [bold ", additional.color, "]">>
    /\ additional.value.type = "str"
           => text = <<"  ", additional.name, ": [bold ", additional.color, "]">>
                         \o additional.value.s
                         \o <<"[/bold ", additional.color, "]">>

\* C14: the rendering of a Display Item holds a line for an additional if
\* and only if the value of the additional is present (not None): none for
\* an absent value, exactly one with the name and the formatted value for
\* a present one.
C14_LineIffValuePresent ==
    Displayed_Items /\ call.ty \in RecordTypes
        => \A i \in Indices(call.items) :
               \A k \in Indices(ret.value.transformed[i].additionals) :
                   LET additional == ret.value.transformed[i].additionals[k]
                       lines == LinesOf(ItemGroups[i], additional.name)
                   IN  IF additional.value.type = "NoneType"
                       THEN lines = {}
                       ELSE /\ Cardinality(lines) = 1
                            /\ \A l \in lines :
                                   ShowsValue(ItemGroups[i].parts[l].text, additional)

Absent(field) == field = None \/ field = <<>>

\* The field of a record that feeds the additional of a name.
Upstream(item, name) ==
    CASE name = "Location" -> item.location
      [] name = "Priority" -> item.priority
      [] name = "Effort" -> item.effort
      [] name = "Person" -> item.person[2]
      [] name = "Context" -> item.contexts
      [] name = "Scheduled" -> item.scheduled
      [] name = "Deadline" -> item.deadline
      [] name = "Sent" -> item.sent
      [] OTHER -> item.date

\* C15: whenever the field of a record that feeds an additional is absent
\* (None or the empty string; for Context, no contexts), transform_item
\* gives the additional the value None, and no additional it makes has the
\* empty string as its value.
C15_AbsentFieldAbsentValue ==
    Displayed_Items /\ call.ty \in RecordTypes
        => \A i \in Indices(call.items) :
               \A k \in Indices(ret.value.transformed[i].additionals) :
                   LET additional == ret.value.transformed[i].additionals[k] IN
                   /\ additional.value # Str(<<>>)
                   /\ Absent(Upstream(call.items[i], additional.name))
                          => additional.value = NoneValue

IsDisplayItem(r) == r # NoneDict

\* C16 as stated: transform_item returns a Display Item for each of the
\* tags event, daily_note, tickle, person_date, task, project, waiting and
\* target_context, and no item only for a tag outside that set.
C16_TotalOverTagSet ==
    Displayed_Items
        => \A i \in Indices(call.items) :
               IsDisplayItem(ret.value.transformed[i])
                   <=> call.ty \in RecordTypes \cup {"target_contexts"}

\* C16, amended: the transform_item of src/scripts/display.py returns a
\* Display Item for each of the tags event, daily_note, tickle,
\* person_date, task, project and waiting, and no item for target_context,
\* as for every tag outside the set; the transform_item of src/display.py
\* returns a Display Item for target_context too, titled with the
\* capitalized name of the context.
C16_ItemForRecordTypes ==
    Displayed_Items
        => \A i \in Indices(call.items) :
               /\ IsDisplayItem(ret.value.transformed[i]) <=> call.ty \in RecordTypes
               /\ IsDisplayItem(ret.value.legacy[i])
                      <=> call.ty \in RecordTypes \cup {"target_contexts"}
               /\ call.ty = "target_contexts"
                      => /\ ret.value.legacy[i].title = <<"C">> \o Tail(call.items[i])
                         /\ ret.value.legacy[i].body = None
                         /\ ret.value.legacy[i].additionals = <<>>
               /\ call.ty \in RecordTypes
                      => /\ ret.value.transformed[i].body = call.items[i].body
                         /\ ret.value.legacy[i] = ret.value.transformed[i]

\* The names of two contexts have been transformed: to no items by
\* src/scripts/display.py, to two items by src/display.py.
C16_Witness ==
    /\ Displayed_Items
    /\ call.ty = "target_contexts"
    /\ Len(call.items) = 2
    /\ \A i \in Indices(call.items) : ~IsDisplayItem(ret.value.transformed[i])
    /\ \A i \in Indices(call.items) : IsDisplayItem(ret.value.legacy[i])
    /\ ItemGroups = <<>>

\* C17: when a type tag outside the closed set reaches transform_item in
\* display_items, the call fails with an error that names the tag; it
\* never completes normally with the records left out.
C17_UnknownKindRaises ==
    Displayed_Items /\ call.items # <<>>
                    /\ call.ty \notin RecordTypes \cup {"target_contexts"}
        => /\ ret.raised # ""
           /\ ret.msg.arg = call.ty

TitleText(title) == <<"-> [bold]">> \o title \o <<"[/bold]">>

\* The title a task must show.
NextOrPlain(task) ==
    IF task.can_start THEN task.title ELSE <<"[NEXT] ">> \o task.title

\* The title a task must not show.
PlainOrNext(task) ==
    IF task.can_start THEN <<"[NEXT] ">> \o task.title ELSE task.title

Displayed_Minis == pc = "done" /\ call.fn = "context_minis"

\* The first lines of the groups of a rendering of items.
GroupTitles(rendering) ==
    {rendering.parts[g].parts[1].text :
        g \in {h \in Indices(rendering.parts) : rendering.parts[h].kind = "Group"}}

\* The title lines of the tasks of all the mini dashboards.
MiniTitles ==
    UNION {GroupTitles(ret.value.displayed.parts[m].parts[3]) :
               m \in Indices(ret.value.displayed.parts)}

\* C18: the title of the Display Item of a task is the title of the record
\* with "[NEXT] " before it if and only if can_start is false, and the
\* title of the record unchanged if can_start is true; so too for the tasks
\* of the mini dashboards of a target_contexts view.
C18_NextIffCannotStart ==
    /\ Displayed_Items /\ call.ty = "tasks"
           => \A i \in Indices(call.items) :
                  /\ ret.value.transformed[i].title = NextOrPlain(call.items[i])
                  /\ ItemGroups[i].parts[1].text = TitleText(NextOrPlain(call.items[i]))
    /\ Displayed_Minis
           => \A c \in Indices(call.view_data) :
                  \A i \in Indices(call.view_data[c][2]) :
                      /\ TitleText(NextOrPlain(call.view_data[c][2][i])) \in MiniTitles
                      /\ TitleText(PlainOrNext(call.view_data[c][2][i])) \notin MiniTitles

\* A task that cannot start and one that can have been rendered, the first
\* with "[NEXT] ", the second without.
C18_Witness ==
    /\ Displayed_Items
    /\ call.ty = "tasks"
    /\ Len(call.items) = 2
    /\ ~call.items[1].can_start
    /\ call.items[2].can_start
    /\ ItemGroups[1].parts[1].text = <<"-> [bold]", "[NEXT] ", "T", "1", "[/bold]">>
    /\ ItemGroups[2].parts[1].text = <<"-> [bold]", "T", "2", "[/bold]">>

\* Two contexts with a task that cannot start have been rendered as mini
\* dashboards.
C18_WitnessMinis ==
    /\ Displayed_Minis
    /\ Len(call.view_data) = 2
    /\ call.view_data[2][2] # <<>>
    /\ ~call.view_data[2][2][1].can_start
    /\ <<"-> [bold]", "[NEXT] ", "T", "2", "1", "[/bold]">> \in MiniTitles

Present(half) == half # None /\ half # <<>>

\* The time phrase for a start and an end, by which of them are present.
PhraseFor(start, end) ==
    CASE Present(start) /\ Present(end) -> <<"from ">> \o start \o <<" to ">> \o end
      [] Present(start) /\ ~Present(end) -> <<"from ">> \o start
      [] ~Present(start) /\ Present(end) -> <<"until ">> \o end
      [] ~Present(start) /\ ~Present(end) -> <<"all day">>

\* C19: the title line of a Display Item with a Timestamp carries exactly
\* one time phrase, chosen by which halves are present: "from S to E",
\* "from S", "until E" or "all day"; the title line of an item without a
\* Timestamp carries no time phrase.
C19_TimePhraseByHalves ==
    Displayed_Items /\ call.ty \in RecordTypes
        => \A i \in Indices(call.items) :
               LET item == ret.value.transformed[i] IN
               ItemGroups[i].parts[1].text =
                   IF item.time = NoneDict THEN TitleText(item.title)
                   ELSE <<"-> [bold]">> \o item.title \o <<" [yellow]">>
                            \o PhraseFor(item.time.start, item.time.end)
                            \o <<"[/yellow][/bold]">>

\* An event with an end and no start has been rendered with "until".
C19_Witness ==
    /\ Displayed_Items
    /\ call.ty = "events"
    /\ Len(call.items) = 1
    /\ call.items[1].timestamp.start.time = None
    /\ call.items[1].timestamp.end # NoneDict
    /\ ItemGroups[1].parts[1].text =
           <<"-> [bold]", "T", "1", " [yellow]", "until ", "1", "1", ":", "0", "0",
             "[/yellow][/bold]">>

\* A half of a Timestamp made of the time of a record: absent if the time
\* is, and else its hours and minutes, HH:MM.
IsHoursAndMinutesOf(half, time) ==
    IF Absent(time) THEN Absent(half) ELSE half = SubSeq(time, 1, 5)

\* C20: after a Timestamp is made of the timestamp of a record, each of
\* start and end is absent or a time of day HH:MM: the seconds of the
\* time of the record are removed, whatever they are, and the hours and
\* minutes are kept.
C20_SecondsAlwaysStripped ==
    Displayed_Items /\ call.ty = "events"
        => \A i \in Indices(call.items) :
               /\ IsHoursAndMinutesOf(ret.value.transformed[i].time.start,
                                      call.items[i].timestamp.start.time)
               /\ IF call.items[i].timestamp.end = NoneDict
                  THEN ret.value.transformed[i].time.end = None
                  ELSE IsHoursAndMinutesOf(ret.value.transformed[i].time.end,
                                           call.items[i].timestamp.end.time)

\* The positions in cal_out of the blank lines.
BlankAt == {k \in Indices(cal_out) : cal_out[k] = BlankLine}

\* C27: each day group is separated from the next day group by exactly one
\* blank line, and a blank line stands only between two groups: the last
\* day group is not followed by one.
C27_BlankOnlyBetweenGroups ==
    Grouped
        => /\ \A k \in BlankAt :
                  /\ k > 1 /\ cal_out[k - 1].kind = "display_items"
                  /\ k < Len(cal_out) /\ cal_out[k + 1].kind = "day_header"
           /\ \A h \in HeaderAt : h > 1 => cal_out[h - 1] = BlankLine
           /\ cal_out[Len(cal_out)] # BlankLine

IsEmptyLine(part) == part.kind = "Text" /\ part.text = <<>>

\* The blank lines a group ends with: the bottom padding of a body that
\* ends it, or the empty lines that end it.
RECURSIVE BlankLinesAtEnd(_, _)
BlankLinesAtEnd(parts, n) ==
    IF n = 0 THEN 0
    ELSE IF parts[n].kind = "Padding" THEN parts[n].pad[3]
    ELSE IF IsEmptyLine(parts[n]) THEN 1 + BlankLinesAtEnd(parts, n - 1)
    ELSE 0

HasBody(group) == \E l \in Indices(group.parts) : group.parts[l].kind = "Padding"

\* C26: in a sequence rendered by display_items exactly the final record is
\* rendered as the last: every item before it ends with exactly one blank
\* line (the bottom padding of its body, or one empty line if it has no
\* body) and the final item ends with none.
C26_OneBlankLineBetweenItems ==
    Displayed_Items /\ call.ty \in RecordTypes /\ call.items # <<>>
        => /\ Len(ItemGroups) = Len(call.items)
           /\ \A i \in Indices(call.items) :
                  /\ HasBody(ItemGroups[i]) <=> Present(call.items[i].body)
                  /\ BlankLinesAtEnd(ItemGroups[i].parts, Len(ItemGroups[i].parts))
                         = IF i < Len(call.items) THEN 1 ELSE 0

\* A note without a body and, after it, a note with one have been rendered:
\* the first ends with an empty line, the second with its body, unpadded
\* below.
C26_Witness ==
    /\ Displayed_Items
    /\ call.ty = "daily_notes"
    /\ Len(call.items) = 2
    /\ call.items[1].body = None
    /\ call.items[2].body = <<"b">>
    /\ IsEmptyLine(ItemGroups[1].parts[Len(ItemGroups[1].parts)])
    /\ ItemGroups[2].parts[Len(ItemGroups[2].parts)].pad = <<1, 0, 0, 2>>

\* The keys of contexts in the order Python compares strings, upper case
\* before lower case, and the title of each.
KeysInOrder ==
    <<[key |-> <<"W", "o", "r", "k">>, title |-> <<"W", "o", "r", "k">>],
      [key |-> <<"a", "t", "_", "d", "e", "s", "k">>,
       title |-> <<"A", "t", " ", "d", "e", "s", "k">>],
      [key |-> <<"h", "o", "m", "e">>, title |-> <<"H", "o", "m", "e">>]>>

RankOfKey(key) == CHOOSE r \in Indices(KeysInOrder) : KeysInOrder[r].key = key

Minis == ret.value.displayed.parts

\* The rank of the key whose title a mini dashboard shows.
RankOfMini(m) ==
    CHOOSE r \in Indices(KeysInOrder) :
        Minis[m].parts[1].text = <<"[bold]">> \o KeysInOrder[r].title \o <<"[/bold]">>

\* C23: for a target_contexts view build_dashboards makes one titled mini
\* dashboard per context key, in the lexicographic order of the keys
\* whatever the order of the mapping, each with the tasks of its context,
\* and a blank line ends every mini dashboard but the last.
C23_MinisSortedAndSeparated ==
    Displayed_Minis
        => /\ Len(Minis) = Len(call.view_data)
           /\ \A m \in Indices(Minis) :
                  /\ Len(Minis[m].parts) = 4
                  /\ \E r \in Indices(KeysInOrder) :
                         Minis[m].parts[1].text =
                             <<"[bold]">> \o KeysInOrder[r].title \o <<"[/bold]">>
                  /\ IsEmptyLine(Minis[m].parts[2])
                  /\ IF m < Len(Minis) THEN IsEmptyLine(Minis[m].parts[4])
                     ELSE Minis[m].parts[4] = Group(<<>>)
           /\ \A m1, m2 \in Indices(Minis) :
                  m1 < m2 => RankOfMini(m1) < RankOfMini(m2)
           /\ \A c \in Indices(call.view_data) :
                  \E m \in Indices(Minis) :
                      /\ RankOfMini(m) = RankOfKey(call.view_data[c][1])
                      /\ GroupTitles(Minis[m].parts[3])
                             = {TitleText(NextOrPlain(call.view_data[c][2][i])) :
                                    i \in Indices(call.view_data[c][2])}

\* A mapping with the key home before the key Work has been rendered: the
\* mini dashboard of Work first, ended by a blank line, then that of home.
C23_Witness ==
    /\ Displayed_Minis
    /\ Len(call.view_data) = 2
    /\ call.view_data[1][1] = <<"h", "o", "m", "e">>
    /\ call.view_data[2][1] = <<"W", "o", "r", "k">>
    /\ Minis[1].parts[1].text = <<"[bold]", "W", "o", "r", "k", "[/bold]">>
    /\ Minis[2].parts[1].text = <<"[bold]", "H", "o", "m", "e", "[/bold]">>
    /\ IsEmptyLine(Minis[1].parts[4])
    /\ ~IsEmptyLine(Minis[2].parts[4])

\* The places (track, slot) of the grid that hold the panel i.
PlacesOf(i) ==
    {place \in Indices(layout.value) \X (1 .. MaxPanels) :
        /\ place[2] <= Len(layout.value[place[1]])
        /\ layout.value[place[1]][place[2]] = i}

\* C29: whenever build_layout returns a grid, every input panel appears in
\* it exactly once: no panel with a span parse_pos returns is dropped from
\* the grid or placed twice.
C29_EveryPanelPlacedOnce ==
    (LaidOut /\ layout.raised = "")
        => \A i \in Indices(dashboards) : Cardinality(PlacesOf(i)) = 1

----------------------------------------------------------------------------
(* SpecRows: build_layout applied to a list of dashboards and again to the *)
(* same list with other row ends and other measured heights.  No dashboard *)
(* spans columns, and rows and columns are not negative.                   *)

MaxPlaced == 2

Heights == {1, 2}

\* self.height = get_renderable_height(renderable)
Measured(dashboard, height) ==
    [renderable |-> dashboard.renderable, name |-> dashboard.name,
     row_start |-> dashboard.row_start, row_end |-> dashboard.row_end,
     col_start |-> dashboard.col_start, col_end |-> dashboard.col_end,
     height |-> height]

\* Where a dashboard starts: its row and its column.
Starts == (0 .. MaxRow) \X (0 .. MaxCol)

\* The dashboard i that starts at start, ends in the row row_end and has
\* the height height.
Placed(i, start, row_end, height) ==
    Measured(Positioned(i, i, <<start[1], row_end, start[2], start[2]>>), height)

\* How many rows below its first row a dashboard ends, and its height.
Extents == (0 .. MaxRow) \X Heights

InitRows ==
    /\ pc = "start"
    /\ \E starts \in SeqsUpTo(Starts, MaxPlaced) :
           /\ dashboards = [i \in Indices(starts) |-> Placed(i, starts[i], starts[i][1], 1)]
           /\ \E extents \in [Indices(starts) -> Extents] :
                  call = [fn |-> "build_layout",
                          dashboards |->
                              [i \in Indices(starts) |->
                                  Placed(i, starts[i],
                                         starts[i][1] + extents[i][1],
                                         extents[i][2])]]
    /\ ret = Idle
    /\ layout = Idle
    /\ pos_parts = NoParts
    /\ pos_str = <<>>
    /\ pos_result = Idle
    /\ json = <<>>
    /\ built = Idle
    /\ items = <<>>
    /\ ty = ""
    /\ cal_out = <<>>

\* build_layout applied to the list of the call.
BuildLayoutAgain ==
    /\ pc = "done"
    /\ call.fn = "build_layout"
    /\ ret' = build_layout(call.dashboards)
    /\ pc' = "again"
    /\ UNCHANGED <<pos_parts, pos_str, pos_result, dashboards, layout, json,
                   built, items, ty, cal_out, call>>

NextRows == BuildLayout \/ BuildLayoutAgain

SpecRows == InitRows /\ [][NextRows]_vars

Again == pc = "again"

\* The track and the slot in it of the dashboard i, by its column, its first
\* row and its place in the list alone.
SlotByStart(ds, i) ==
    <<ds[i].col_start + 1,
      1 + Cardinality({j \in Indices(ds) :
              /\ ds[j].col_start = ds[i].col_start
              /\ \/ ds[j].row_start < ds[i].row_start
                 \/ ds[j].row_start = ds[i].row_start /\ j < i})>>

\* C28: the arrangement build_layout emits depends only on the col_start
\* and the row_start of each panel and on the input order: with other row
\* ends and other heights the same grid comes out, and the slot of a panel
\* in its track is its rank by row_start within its column.
C28_PlacedByStartAlone ==
    Again
        => /\ ret = layout
           /\ call.dashboards # <<>>
                  => /\ ret.raised = ""
                     /\ \A i \in Indices(call.dashboards) :
                            ret.value[SlotByStart(call.dashboards, i)[1]]
                                     [SlotByStart(call.dashboards, i)[2]] = i

\* A panel that runs from row 0 over two rows and a panel of row 1 in the
\* same column, given in the other order, have been laid out: the spanning
\* panel first, the other after it.
C28_Witness ==
    /\ Again
    /\ Len(call.dashboards) = 2
    /\ <<call.dashboards[1].row_start, call.dashboards[1].row_end>> = <<1, 1>>
    /\ <<call.dashboards[2].row_start, call.dashboards[2].row_end>> = <<0, 1>>
    /\ call.dashboards[1].col_start = 1
    /\ call.dashboards[2].col_start = 1
    /\ call.dashboards[2].height = 2
    /\ ret = Return(<< <<>>, <<2, 1>> >>)
    /\ layout = ret

----------------------------------------------------------------------------
(* The pipeline scripts: redact_busy.redact_events, items_to_list and       *)
(* gtasks_upload.  Each takes the array of items of the step before it.     *)

\* The variables of the dashboard calls, which the scripts never touch.
NoDashboard ==
    /\ pos_parts = NoParts
    /\ pos_str = <<>>
    /\ pos_result = Idle
    /\ dashboards = <<>>
    /\ layout = Idle
    /\ json = <<>>
    /\ built = Idle
    /\ items = <<>>
    /\ ty = ""
    /\ cal_out = <<>>

MaxRedacted == 2

\* The title redact_events writes, its lock sign written in ASCII.
BusyTitle == <<"(lock) BUSY">>

BusyBody == <<"The details of this event have been redacted for privacy.">>

\* The body of the loop of redact_events: four fields are overwritten, every
\* other field of the item is kept.
redact(item) ==
    [item EXCEPT !.title = BusyTitle, !.body = BusyBody, !.location = None,
                 !.people = <<>>]

\* redact_events: every item of the input is redacted and appended.
redact_events(array) == [i \in Indices(array) |-> redact(array[i])]

\* The kinds of item of an array, as busy_ics_export tells them apart.
ItemKinds == {"event", "task", "daily_note"}

Locations == {None, <<"Office">>}

Attendees == {<<>>, <<<<"p1", "Alice">>>>}

BusyItem(i, kind, location, people) ==
    [id |-> i, ty |-> kind, title |-> Title(i), body |-> <<"Agenda">>,
     location |-> location, people |-> people]

InitRedact ==
    /\ pc = "start"
    /\ \E kinds \in SeqsUpTo(ItemKinds, MaxRedacted) :
       \E locations \in [Indices(kinds) -> Locations] :
       \E people \in [Indices(kinds) -> Attendees] :
           call = [fn |-> "redact_events",
                   items |-> [i \in Indices(kinds) |->
                                 BusyItem(i, kinds[i], locations[i], people[i])]]
    /\ ret = Idle
    /\ NoDashboard

RedactEvents ==
    /\ pc = "start"
    /\ call.fn = "redact_events"
    /\ ret' = Return(redact_events(call.items))
    /\ pc' = "done"
    /\ UNCHANGED <<pos_parts, pos_str, pos_result, dashboards, layout, json,
                   built, items, ty, cal_out, call>>

IsEvent(item) == item.ty = "event"

\* C24: redact_events returns the events of its input and no other item, each
\* with title, body, location and people redacted and its id unchanged.
C24_OnlyEventsRedacted ==
    (pc = "done" /\ call.fn = "redact_events") =>
        LET events == SelectSeq(call.items, IsEvent) IN
        /\ Len(ret.value) = Len(events)
        /\ \A i \in Indices(events) :
               /\ ret.value[i].id = events[i].id
               /\ ret.value[i].title = BusyTitle
               /\ ret.value[i].body = BusyBody
               /\ ret.value[i].location = None
               /\ ret.value[i].people = <<>>


----------------------------------------------------------------------------
(* gtasks_upload: upload_item and push_to_google_tasks.  The array is what  *)
(* items_to_list emits: items with an end or none, each with its subtasks.  *)
(* The service answers each POST with a status and, on 200, the id of the   *)
(* task it made; posted is the list of the POSTs made so far, in order,     *)
(* each with the answer it got.                                             *)

MaxUploaded == 2

MaxSubtasks == 1

\* The id the service gives the task made by the n-th POST.
TaskId(n) == <<"g">> \o Decimal(n)

\* The answer to the n-th POST of a run in which the POST numbered fail is
\* refused.
Response(n, fail) ==
    IF n = fail THEN [status_code |-> 403, id |-> None]
    ELSE [status_code |-> 200, id |-> TaskId(n)]

\* A POST with no chance of passing for a failed one.
Failed_Never(response) == FALSE

\* if response.status_code != 200
Failed(response) == response.status_code # 200

\* The POST of upload_item: "?parent=" is added to the URL if parent_id is
\* truthy, and the task carries the title of the item.
Post(item, parent_id, response) ==
    [title |-> item.title,
     parent |-> IF Truthy(parent_id) THEN parent_id ELSE None,
     status_code |-> response.status_code, id |-> response.id]

RECURSIVE upload_item(_, _, _, _)
RECURSIVE upload_each(_, _, _, _)

\* upload_item, from the POSTs made before it to the POSTs made after it.
upload_item(item, parent_id, posted, fail) ==
    IF Truthy(item.end) THEN posted
    ELSE LET response == Response(Len(posted) + 1, fail) IN
         IF Failed(response) THEN Append(posted, Post(item, parent_id, response))
         ELSE IF item.subtasks # <<>>
         THEN upload_each(item.subtasks, response.id,
                          Append(posted, Post(item, parent_id, response)), fail)
         ELSE Append(posted, Post(item, parent_id, response))

\* for item in array: upload_item(item, token, task_list, parent_id)
upload_each(array, parent_id, posted, fail) ==
    IF array = <<>> THEN posted
    ELSE upload_each(Tail(array), parent_id,
                     upload_item(Head(array), parent_id, posted, fail), fail)

push_to_google_tasks(array, fail) == upload_each(array, None, <<>>, fail)

Ends == {None, IsoDatetime(<<2024, 2, 25>>, 17, 0, 0)}

Subtask(i, j, end) ==
    [id |-> 10 * i + j, title |-> Title(10 * i + j), end |-> end,
     subtasks |-> <<>>]

Task(i, end, sub_ends) ==
    [id |-> i, title |-> Title(i), end |-> end,
     subtasks |-> [j \in Indices(sub_ends) |-> Subtask(i, j, sub_ends[j])]]

InitUpload ==
    /\ pc = "start"
    /\ \E ends \in SeqsUpTo(Ends, MaxUploaded) :
       \E sub_ends \in [Indices(ends) -> SeqsUpTo(Ends, MaxSubtasks)] :
       \E fail \in 0 .. MaxUploaded * (1 + MaxSubtasks) :
           call = [fn |-> "push_to_google_tasks",
                   items |-> [i \in Indices(ends) |-> Task(i, ends[i], sub_ends[i])],
                   fail |-> fail]
    /\ ret = Idle
    /\ NoDashboard

PushToGoogleTasks ==
    /\ pc = "start"
    /\ call.fn = "push_to_google_tasks"
    /\ ret' = Return(push_to_google_tasks(call.items, call.fail))
    /\ pc' = "done"
    /\ UNCHANGED <<pos_parts, pos_str, pos_result, dashboards, layout, json,
                   built, items, ty, cal_out, call>>

Pushed == pc = "done" /\ call.fn = "push_to_google_tasks"

\* The places of the POSTs of an item in the list of POSTs.
PostsOf(item, posted) == {p \in Indices(posted) : posted[p].title = item.title}

\* The POST of the subtask was made after a POST of its parent that was
\* answered 200, and names the id of that answer as its parent.
UnderParent(p, parent, posted) ==
    \E q \in PostsOf(parent, posted) :
        /\ q < p
        /\ posted[q].status_code = 200
        /\ posted[p].parent # None
        /\ posted[p].parent = posted[q].id

----------------------------------------------------------------------------
(* items_to_list: process_ts, process_singleton_ts, transform_item and      *)
(* items_to_list of src/scripts/items_to_list.py.  A list item is modelled  *)
(* by its id, title, location, subtasks, start and end; the text of its     *)
(* body, which no date is read back from, is left out.                      *)

MaxListed == 1

\* datetime.isoformat() of a datetime without microseconds.
datetime_isoformat(dt) == IsoDatetime(dt.date, dt.hour, dt.minute, dt.second)

\* The seconds of a datetime since the start of its day.
SecondOfDay(dt) == dt.hour * 3600 + dt.minute * 60 + dt.second

\* a >= b of two datetimes.
NotBefore(a, b) ==
    \/ toordinal(a.date) > toordinal(b.date)
    \/ /\ toordinal(a.date) = toordinal(b.date)
       /\ SecondOfDay(a) >= SecondOfDay(b)

\* datetime.combine(earliest_date, datetime.min.time())
earliest_dt(earliest_date) == Datetime(earliest_date, 0, 0, 0)

\* strptime(point["date"], "%Y-%m-%d"), and if point["time"]:
\* .replace(hour=int(time[:2]), minute=int(time[3:5]))
ParsePoint(point) ==
    IF Truthy(point.time)
    THEN Datetime(strptime_date(point.date), int(SubSeq(point.time, 1, 2)),
                  int(SubSeq(point.time, 4, 5)), 0)
    ELSE strptime_Ymd(point.date)

\* A datetime left where it is, whatever the earliest date.
OnOrAfter_Kept(dt, earliest_date) == dt

\* dt if dt.date() >= earliest_date else earliest_dt
OnOrAfter(dt, earliest_date) ==
    IF toordinal(dt.date) >= toordinal(earliest_date) THEN dt
    ELSE earliest_dt(earliest_date)

\* process_ts: the pair (start, end).
process_ts(ts, earliest_date) ==
    IF ts = NoneDict \/ ts.start = NoneDict THEN <<None, None>>
    ELSE <<datetime_isoformat(OnOrAfter(ParsePoint(ts.start), earliest_date)),
           IF ts.end # NoneDict
           THEN datetime_isoformat(OnOrAfter(ParsePoint(ts.end), earliest_date))
           ELSE None>>

\* process_singleton_ts: the two datetimes are compared whole.
process_singleton_ts(dt_str, earliest_date) ==
    IF NotBefore(strptime_YmdTHMS(dt_str), earliest_dt(earliest_date))
    THEN datetime_isoformat(strptime_YmdTHMS(dt_str))
    ELSE datetime_isoformat(earliest_dt(earliest_date))

\* The start of an item with a date: the datetime of the date, or the
\* earliest date itself, which is a date and is written without a time.
DateStart(date, earliest_date) ==
    IF toordinal(strptime_date(date)) >= toordinal(earliest_date)
    THEN datetime_isoformat(strptime_Ymd(date))
    ELSE isoformat(earliest_date)

\* if not list_item["start"]: list_item["start"] = process_singleton_ts(...)
StartOr(start, dt_str, earliest_date) ==
    IF Truthy(dt_str) /\ ~Truthy(start)
    THEN process_singleton_ts(dt_str, earliest_date)
    ELSE start

ListItem(id, title, location, subtasks, start, end) ==
    [id |-> id, title |-> title, location |-> location, subtasks |-> subtasks,
     start |-> start, end |-> end]

\* transform_item of items_to_list.py, given the pair process_ts returns for
\* the timestamp of the item.
transform_timed(item, pair, earliest_date) ==
    ListItem(item.id, item.title, item.location, <<>>,
             StartOr(StartOr(pair[1], item.scheduled, earliest_date),
                     item.deadline, earliest_date),
             pair[2])

\* transform_item of items_to_list.py.
transform_item_to_list(item, earliest_date) ==
    IF Truthy(item.date)
    THEN ListItem(item.id, item.title, item.location, <<>>,
                  DateStart(item.date, earliest_date), None)
    ELSE transform_timed(item,
                         IF item.timestamp # NoneDict
                         THEN process_ts(item.timestamp, earliest_date)
                         ELSE <<None, None>>,
                         earliest_date)

\* str.title() of a name of words and underscores or spaces.
title(s) ==
    [k \in Indices(s) |->
        IF k = 1 \/ s[k - 1] = " " \/ s[k - 1] = "_" THEN ToUpper(s[k])
        ELSE ToLower(s[k])]

\* The top-level task of a context, its items below it.
ctx_item(ctx, ctx_data, earliest_date) ==
    ListItem(<<"context_supertask_">> \o ctx, title(replace(ctx, "_", " ")), None,
             [j \in Indices(ctx_data) |->
                 transform_item_to_list(ctx_data[j], earliest_date)],
             None, None)

\* The items one type gives.
OfType(type_name, type_data, earliest_date) ==
    IF type_name = "target_contexts"
    THEN [c \in Indices(type_data) |->
             ctx_item(type_data[c].ctx, type_data[c].ctx_data, earliest_date)]
    ELSE [i \in Indices(type_data) |->
             transform_item_to_list(type_data[i], earliest_date)]

RECURSIVE items_to_list(_, _)
items_to_list(types, earliest_date) ==
    IF types = <<>> THEN <<>>
    ELSE OfType(types[1].type_name, types[1].type_data, earliest_date)
             \o items_to_list(Tail(types), earliest_date)

\* Friday 1 March 2024, the day before it and the day after it.
Earliest == <<2024, 3, 1>>

Before == isoformat(PrevDay(Earliest))

After == isoformat(NextDay(Earliest))

Point(date, time) == [date |-> date, time |-> time]

StartPoints == {Point(Before, IsoTime(9, 30, 0)), Point(After, None)}

EndPoints ==
    {NoneDict, Point(Before, IsoTime(17, 0, 0)), Point(After, IsoTime(17, 0, 0))}

Undated(timestamp, scheduled, deadline) ==
    [date |-> None, timestamp |-> timestamp, scheduled |-> scheduled,
     deadline |-> deadline]

\* What an item says of its time: a date; a timestamp with a start; a
\* scheduled time, a deadline, both or neither, with no timestamp; or a
\* scheduled time with a timestamp that has no start.
Timings ==
    {[date |-> d, timestamp |-> NoneDict, scheduled |-> None, deadline |-> None] :
         d \in {Before, After}}
    \cup {Undated([start |-> s, end |-> e], None, None) :
              s \in StartPoints, e \in EndPoints}
    \cup {Undated(NoneDict, s, d) :
              s \in {None, Before \o <<"T">> \o IsoTime(9, 30, 0)},
              d \in {None, After \o <<"T">> \o IsoTime(17, 0, 0)}}
    \cup {Undated([start |-> NoneDict, end |-> NoneDict],
                   Before \o <<"T">> \o IsoTime(9, 30, 0), None)}

Listed(id, timing) ==
    [id |-> id, title |-> <<"Item">>, location |-> None] @@ timing

InitList ==
    /\ pc = "start"
    /\ \E tasks \in SeqsUpTo(Timings, MaxListed) :
       \E ctx_data \in SeqsUpTo(Timings, MaxListed) :
           LET plain == [type_name |-> "tasks",
                         type_data |-> [i \in Indices(tasks) |->
                                           Listed(<<"a">> \o Decimal(i), tasks[i])]]
               contexts == [type_name |-> "target_contexts",
                            type_data |->
                                <<[ctx |-> <<"a", "t", "_", "d", "e", "s", "k">>,
                                   ctx_data |-> [j \in Indices(ctx_data) |->
                                                    Listed(<<"b">> \o Decimal(j),
                                                           ctx_data[j])]]>>]
           IN  call = [fn |-> "items_to_list",
                       items |-> <<plain, contexts>>,
                       earliest_date |-> Earliest]
    /\ ret = Idle
    /\ NoDashboard

ItemsToList ==
    /\ pc = "start"
    /\ call.fn = "items_to_list"
    /\ ret' = Return(items_to_list(call.items, call.earliest_date))
    /\ pc' = "done"
    /\ UNCHANGED <<pos_parts, pos_str, pos_result, dashboards, layout, json,
                   built, items, ty, cal_out, call>>

InitScripts == InitRedact \/ InitUpload \/ InitList

NextScripts == RedactEvents \/ PushToGoogleTasks \/ ItemsToList

SpecScripts == InitScripts /\ [][NextScripts]_vars

Listing == pc = "done" /\ call.fn = "items_to_list"

\* The items handed in, those of the contexts included.
Given(types) ==
    UNION {IF types[k].type_name = "target_contexts"
           THEN UNION {{types[k].type_data[c].ctx_data[j] :
                            j \in Indices(types[k].type_data[c].ctx_data)} :
                       c \in Indices(types[k].type_data)}
           ELSE {types[k].type_data[i] : i \in Indices(types[k].type_data)} :
           k \in Indices(types)}

\* The items emitted, top-level items and subtasks.
Emitted(list) ==
    {list[i] : i \in Indices(list)}
    \cup UNION {{list[i].subtasks[j] : j \in Indices(list[i].subtasks)} :
                    i \in Indices(list)}

\* The moment an emitted start or end names: a date ("2024-03-01") is the
\* start of its day.
Moment(s) ==
    IF Len(s) = 10 THEN strptime_Ymd(s) ELSE strptime_YmdTHMS(s)

\* The item has a timestamp whose start is not after its end.
StartsBeforeEnd(item) ==
    /\ ~Truthy(item.date)
    /\ item.timestamp # NoneDict
    /\ item.timestamp.start # NoneDict
    /\ item.timestamp.end # NoneDict
    /\ NotBefore(ParsePoint(item.timestamp.end), ParsePoint(item.timestamp.start))

\* C25: every start and end items_to_list emits, on a top-level item or on a
\* subtask, is on or after the earliest date; no emitted item has an end and
\* no start; and an item whose start was not after its end is emitted with a
\* start that is not after its end.
C25_NothingBeforeEarliest ==
    Listing =>
        /\ \A e \in Emitted(ret.value) :
               /\ e.start # None =>
                      NotBefore(Moment(e.start), earliest_dt(call.earliest_date))
               /\ e.end # None =>
                      NotBefore(Moment(e.end), earliest_dt(call.earliest_date))
               /\ e.end # None => e.start # None
        /\ \A g \in Given(call.items) : \A e \in Emitted(ret.value) :
               (e.id = g.id /\ StartsBeforeEnd(g)) =>
                   /\ e.start # None
                   /\ e.end # None
                   /\ NotBefore(Moment(e.end), Moment(e.start))

\* A subtask whose start and end were both before the earliest date is
\* emitted with both on it, beside a top-level item whose start alone was.
C25_Witness ==
    /\ Listing
    /\ \E e \in Emitted(ret.value) : \E g \in Given(call.items) :
           /\ e.id = g.id
           /\ e.id = <<"b", "1">>
           /\ StartsBeforeEnd(g)
           /\ g.timestamp.end.date = Before
           /\ e.start = IsoDatetime(Earliest, 0, 0, 0)
           /\ e.end = e.start
    /\ \E e \in Emitted(ret.value) : \E g \in Given(call.items) :
           /\ e.id = g.id
           /\ e.id = <<"a", "1">>
           /\ StartsBeforeEnd(g)
           /\ g.timestamp.end.date = After
           /\ e.start = IsoDatetime(Earliest, 0, 0, 0)
           /\ ~NotBefore(Moment(e.start), Moment(e.end))


----------------------------------------------------------------------------
(* SpecViews: the dates build_dashboards hands on.  One view is built with  *)
(* the current_date of the caller while the clock of the process shows the  *)
(* same day or the next; each call of display_items made on the way is kept *)
(* with the current_date it was given.                                      *)

\* The days datetime.now().date() may give when the caller passes cur.
WallClocks(cur) == {cur, NextDay(cur)}

ItemsCall(its, t, current_date) ==
    [items |-> its, ty |-> t, current_date |-> current_date]

\* The calls of display_items in what cal_dashboard yields: current_date is
\* datetime.now().date(), read at line 313.
CalCalls(yielded, t, now) ==
    [k \in Indices(SelectSeq(yielded, LAMBDA y : y.kind = "display_items")) |->
        ItemsCall(SelectSeq(yielded, LAMBDA y : y.kind = "display_items")[k].items,
                  t, now)]

\* The calls of display_items for the contexts of a target_contexts view.
MiniCalls(sorted, current_date) ==
    [k \in Indices(sorted) |-> ItemsCall(sorted[k][2], "tasks", current_date)]

\* The calls of display_items build_dashboards makes for one view, in order.
ViewCalls(view_data_type, view_data, current_date, now) ==
    IF view_data_type = "events" \/ view_data_type = "daily_notes"
    THEN CalCalls(cal_dashboard(view_data, view_data_type), view_data_type, now)
    ELSE IF view_data_type = "target_contexts"
    THEN MiniCalls(SortedByKey(view_data, Len(view_data)), current_date)
    ELSE <<ItemsCall(view_data, view_data_type, current_date)>>

\* What the calls return.
Renderings(calls) ==
    [k \in Indices(calls) |->
        display_items(calls[k].items, calls[k].ty, calls[k].current_date)]

\* A daily note carries the day it is of.
OfDay(its, t, cur) ==
    IF t = "daily_notes"
    THEN [i \in Indices(its) |-> [date |-> isoformat(cur)] @@ its[i]]
    ELSE its

ViewTypes == {"events", "daily_notes", "tickles"}

InitViews ==
    /\ pc = "start"
    /\ \E cur \in CurrentDates :
       \E now \in WallClocks(cur.date) :
           \/ \E t \in ViewTypes : \E its \in ItemLists(t, cur.date) :
                  call = [fn |-> "build_dashboards", view_data_type |-> t,
                          view_data |-> OfDay(its, t, cur.date),
                          current_date |-> cur.date, now |-> now]
           \/ \E view_data \in ViewData :
                  call = [fn |-> "build_dashboards",
                          view_data_type |-> "target_contexts",
                          view_data |-> view_data,
                          current_date |-> cur.date, now |-> now]
    /\ ret = Idle
    /\ NoDashboard

BuildView ==
    /\ pc = "start"
    /\ call.fn = "build_dashboards"
    /\ ret' = Return([calls |-> ViewCalls(call.view_data_type, call.view_data,
                                          call.current_date, call.now),
                      displayed |-> Renderings(ViewCalls(call.view_data_type,
                                                         call.view_data,
                                                         call.current_date,
                                                         call.now))])
    /\ pc' = "done"
    /\ UNCHANGED <<pos_parts, pos_str, pos_result, dashboards, layout, json,
                   built, items, ty, cal_out, call>>

NextViews == BuildView

SpecViews == InitViews /\ [][NextViews]_vars

ViewBuilt == pc = "done" /\ call.fn = "build_dashboards"

\* Whatever the clock of the process shows, the view is rendered the same.
SameOnAnyDay ==
    ViewBuilt =>
        \A now \in WallClocks(call.current_date) :
            Renderings(ViewCalls(call.view_data_type, call.view_data,
                                 call.current_date, now)) = ret.value.displayed

\* C21: every call of display_items made while a view is built is handed the
\* current_date the caller supplied, and the view is rendered the same on
\* whatever day the clock of the process shows.
C21_SuppliedDateHandedOn ==
    ViewBuilt =>
        /\ \A k \in Indices(ret.value.calls) :
               ret.value.calls[k].current_date = call.current_date
        /\ SameOnAnyDay


----------------------------------------------------------------------------
(* SpecHeights: get_renderable_height.  Panels are measured one at a time,  *)
(* in any order, any of them more than once, on a console of one width.     *)
(* The state is the panels as they stand, what has been written to the      *)
(* terminal, and the heights measured so far.  A Text is one word: rich     *)
(* folds a word that is wider than the line.                                *)

MaxMeasured == 3

Min(a, b) == IF a < b THEN a ELSE b

\* The lines a word of text is folded into on a line of width cells; an empty
\* text is one empty line.
Folded(text, width) ==
    IF text = <<>> THEN <<<<>>>>
    ELSE [k \in 1 .. ((Len(text) + width - 1) \div width) |->
             SubSeq(text, (k - 1) * width + 1, Min(k * width, Len(text)))]

\* The lines of each part, one part after the other.
RECURSIVE render_lines(_, _)
RECURSIVE LinesOfParts(_, _)
LinesOfParts(parts, width) ==
    IF parts = <<>> THEN <<>>
    ELSE render_lines(Head(parts), width) \o LinesOfParts(Tail(parts), width)

\* Console.render_lines(renderable, options, pad=False) of a Text or a Group.
render_lines(renderable, width) ==
    IF renderable.kind = "Group" THEN LinesOfParts(renderable.parts, width)
    ELSE Folded(renderable.text, width)

\* The lines of a Panel: its content on lines four cells narrower, for the
\* border and the padding on either side, between two lines of border.
PanelLines(panel, width) ==
    <<<<"top">>>> \o render_lines(panel.displayed, width - 4) \o <<<<"bottom">>>>

\* get_renderable_height of a panel, on a console of the given width.
get_renderable_height(panel, width) == Len(PanelLines(panel, width))

\* A panel whose content was a generator, used up by the rendering.
AfterRender_Consumed(panel) == Panel(Group(<<>>), panel.title)

\* The panel after render_lines: @group() has made a Group of the list of
\* what the function yields, and rendering a list leaves it whole.
AfterRender(panel) == panel

Word(n) == [k \in 1 .. n |-> "x"]

Contents ==
    {Text(Word(1), ""), Group(<<>>), Group(<<Text(Word(1), ""), Text(Word(9), "")>>)}

\* Console().width
Widths == {8, 12}

\* Nothing is measured yet and nothing has been written.
Unmeasured(panels) == [panels |-> panels, printed |-> <<>>, heights |-> <<>>]

InitHeights ==
    /\ pc = "start"
    /\ \E contents \in SeqsUpTo(Contents, MaxPlaced) :
       \E width \in Widths :
           /\ contents # <<>>
           /\ call = [fn |-> "get_renderable_height",
                      panels |-> [i \in Indices(contents) |->
                                     Panel(contents[i], Title(i))],
                      width |-> width]
           /\ ret = Return(Unmeasured(call.panels))
    /\ NoDashboard

\* One call of get_renderable_height, on any panel: nothing is written, the
\* virtual console is dropped, the height is noted.
GetRenderableHeight ==
    /\ pc \in {"start", "measured"}
    /\ call.fn = "get_renderable_height"
    /\ Len(ret.value.heights) < MaxMeasured
    /\ \E i \in Indices(ret.value.panels) :
           ret' = Return([panels |-> [ret.value.panels EXCEPT ![i] = AfterRender(@)],
                          printed |-> ret.value.printed,
                          heights |->
                              Append(ret.value.heights,
                                     [panel |-> i,
                                      height |->
                                          get_renderable_height(ret.value.panels[i],
                                                                call.width)])])
    /\ pc' = "measured"
    /\ UNCHANGED <<pos_parts, pos_str, pos_result, dashboards, layout, json,
                   built, items, ty, cal_out, call>>

NextHeights == GetRenderableHeight

SpecHeights == InitHeights /\ [][NextHeights]_vars

============================================================================
